---- MODULE Spec2Model ----
(***************************************************************************)
(* Model of the meshagent-ts collaborative document core:                  *)
(*   - RuntimeDocument / Element / TextElement   (src/src/agent.ts)        *)
(*   - SyncClient open/close life cycle          (src/src/sync-client.ts)  *)
(* JavaScript arrays are 0-based; TLA+ sequences are 1-based, so the       *)
(* source's targetDelta[i] is delta[i + 1] here. Cursor variables keep the *)
(* source's 0-based values.                                                *)
(* Object references are interchangeable, so after each call the heap is   *)
(* renumbered in depth-first order; the heap as the call left it, in the   *)
(* numbering of the heap before the call, is kept in hist.raw.             *)
(***************************************************************************)
EXTENDS Integers, Sequences, FiniteSets, TLC

\* ---------------------------------------------------------------- bounds
MaxText == 4     \* longest initial text of a text node
MaxRuns == 3     \* most runs in an initial run list
MaxOps == 3      \* most ops in one text op-stream
MaxNodes == 5    \* most nodes of the tree, root included
MaxDocText == 1  \* longest text of a text node in the document behaviour
MaxCalls == 4    \* open/close calls issued on the sync client
MaxListenNodes == 4  \* most nodes of the tree of the document with subscribers
MaxSyncs == 2    \* "room.sync" messages received by the sync client
MaxGatewayNodes == 4  \* most nodes of the tree the gateway calls are made on
MaxElements == 2  \* most element types of a schema constructed
MaxProperties == 2  \* most properties of an element type that is serialized
MaxChanges == 3  \* changes a document hands to sendChangesToBackend

\* ------------------------------------------------------- JavaScript helpers
Undefined == "undefined"

Min(a, b) == IF a < b THEN a ELSE b
Max(a, b) == IF a > b THEN a ELSE b

\* relative index of String.prototype.slice / Array.prototype.splice
JsIndex(len, k) == IF k < 0 THEN Max(len + k, 0) ELSE Min(k, len)

\* s.slice(a, b)
JsSlice(s, a, b) ==
    LET from == JsIndex(Len(s), a)
        to == JsIndex(Len(s), b)
    IN IF from >= to THEN << >> ELSE SubSeq(s, from + 1, to)

\* s.slice(a)
JsSliceFrom(s, a) == JsSlice(s, a, Len(s))

\* arr.splice(start, deleteCount, ...items): the array afterwards
JsSplice(arr, start, deleteCount, items) ==
    LET from == JsIndex(Len(arr), start)
        dc == Min(Max(deleteCount, 0), Len(arr) - from)
    IN SubSeq(arr, 1, from) \o items \o SubSeq(arr, from + dc + 1, Len(arr))

\* { ...a, ...b } and Object.assign(a, b): keys of b override keys of a
ObjAssign(a, b) ==
    [k \in (DOMAIN a) \cup (DOMAIN b) |-> IF k \in DOMAIN b THEN b[k] ELSE a[k]]

EmptyObj == [k \in {} |-> TRUE]

\* obj[name], undefined when the key is absent
ObjGet(obj, name) == IF name \in DOMAIN obj THEN obj[name] ELSE Undefined

\* delete obj[name]
ObjDelete(obj, name) == [k \in (DOMAIN obj) \ {name} |-> obj[k]]

\* obj[name] = value
ObjSet(obj, name, value) == ObjAssign(obj, name :> value)

\* optional fields of a JSON message: << >> is "absent", <<v>> is "v"
Has(opt) == Len(opt) > 0
Val(opt) == opt[1]

\* ------------------------------------------------------------ text engine
\* A run of a TextElement's delta.  A run whose "attributes" is missing in
\* the source is given {} by the format branch before it is read (line 670);
\* runs are modelled with the attribute map always present.
Run(str, attrs) == [insert |-> str, attributes |-> attrs]

\* the node's full text: the run insert strings read in run order
RECURSIVE TextOf(_)
TextOf(delta) == IF delta = << >> THEN << >> ELSE Head(delta).insert \o TextOf(Tail(delta))

\* the cursors of the text loop: i, offset, retainInner over targetDelta
TextState(delta) ==
    [delta |-> delta, i |-> 0, offset |-> 0, retainInner |-> 0, err |-> "none"]

\* targetDelta[i] is undefined
NoRun(st) == st.i < 0 \/ st.i >= Len(st.delta)

SetRun(delta, i, run) == [delta EXCEPT ![i + 1] = run]

\* a splice that also gives the run the op's attributes
SplicedRunWithOpAttributes(run, op, pos) ==
    [run EXCEPT !.insert = JsSlice(run.insert, 0, pos) \o Val(op.insert) \o JsSliceFrom(run.insert, pos),
                !.attributes = IF Has(op.attributes) THEN ObjAssign(@, Val(op.attributes)) ELSE @]

\* targetDelta[i]["insert"] = str.slice(0, pos) + insStr + str.slice(pos)
SplicedRun(run, op, pos) ==
    [run EXCEPT !.insert = JsSlice(run.insert, 0, pos) \o Val(op.insert) \o JsSliceFrom(run.insert, pos)]

\* insert branch
TextInsert(st, op) ==
    LET insStr == Val(op.insert)
    IN IF st.i = Len(st.delta)
       THEN [st EXCEPT !.delta = Append(st.delta,
                            Run(insStr, IF Has(op.attributes) THEN Val(op.attributes) ELSE EmptyObj)),
                       !.i = st.i + 1,
                       !.offset = st.offset + Len(insStr),
                       !.retainInner = st.retainInner + Len(insStr)]
       ELSE IF NoRun(st)
       THEN [st EXCEPT !.err = "TypeError"]
       ELSE LET pos == st.retainInner - st.offset
            IN [st EXCEPT !.delta = SetRun(st.delta, st.i, SplicedRun(st.delta[st.i + 1], op, pos)),
                          !.retainInner = st.retainInner + Len(insStr)]

\* one iteration of the delete loop; "deleted" is carried in the state
TextDeleteStep(st, remaining) ==
    LET str == st.delta[st.i + 1].insert
    IN IF st.retainInner > st.offset
       THEN LET startPos == st.retainInner - st.offset
                start == JsSlice(str, 0, startPos)
                end == JsSliceFrom(str, startPos)
            IN IF remaining >= Len(end)
               THEN [st EXCEPT !.delta = SetRun(st.delta, st.i,
                                    [st.delta[st.i + 1] EXCEPT !.insert = start]),
                               !.deleted = st.deleted + Len(end),
                               !.i = st.i + 1,
                               !.offset = st.offset + Len(str)]
               ELSE [st EXCEPT !.delta = SetRun(st.delta, st.i,
                                    [st.delta[st.i + 1] EXCEPT
                                        !.insert = start \o JsSliceFrom(end, remaining)]),
                               !.deleted = st.deleted + remaining]
       ELSE IF remaining >= Len(str)
       THEN [st EXCEPT !.deleted = st.deleted + Len(str),
                       !.delta = JsSplice(st.delta, st.i, 1, << >>)]
       ELSE [st EXCEPT !.delta = SetRun(st.delta, st.i,
                            [st.delta[st.i + 1] EXCEPT !.insert = JsSliceFrom(str, remaining)]),
                       !.deleted = st.deleted + Len(JsSlice(str, 0, remaining))]

RECURSIVE TextDeleteLoop(_, _)
TextDeleteLoop(st, n) ==
    IF ~(n > st.deleted) THEN st
    ELSE IF NoRun(st) THEN st          \* typeof str !== "string": break
    ELSE TextDeleteLoop(TextDeleteStep(st, n - st.deleted), n)

\* delete branch
TextDelete(st, op) ==
    LET r == TextDeleteLoop([delta |-> st.delta, i |-> st.i, offset |-> st.offset,
                             retainInner |-> st.retainInner, err |-> st.err,
                             deleted |-> 0], Val(op.delete))
    IN [delta |-> r.delta, i |-> r.i, offset |-> r.offset,
        retainInner |-> r.retainInner, err |-> r.err]

\* where the unformatted rest of a run goes when the window ends inside a
\* run reached at its start: targetDelta.push(...)
FormatFrontRest(delta, i, run) == Append(delta, run)

\* one iteration of the format loop; "formatted" is carried in the state
TextFormatStep(st, attrs, remaining) ==
    LET cur == st.delta[st.i + 1]
        str == cur.insert
        startPos == st.retainInner - st.offset
        start == JsSlice(str, 0, startPos)
        end == JsSliceFrom(str, startPos)
    IN IF st.retainInner > st.offset
       THEN IF remaining >= Len(end)
            THEN [st EXCEPT !.delta = JsSplice(
                                SetRun(st.delta, st.i, [cur EXCEPT !.insert = start]),
                                st.i + 1, 0,
                                << Run(end, ObjAssign(cur.attributes, attrs)) >>),
                            !.formatted = st.formatted + Len(end),
                            !.i = st.i + 2,
                            !.offset = st.offset + Len(str)]
            ELSE LET middle == JsSlice(end, 0, remaining)
                     tail == JsSliceFrom(end, remaining)
                 IN [st EXCEPT !.delta = JsSplice(
                                    SetRun(st.delta, st.i, [cur EXCEPT !.insert = start]),
                                    st.i + 1, 0,
                                    << Run(middle, ObjAssign(cur.attributes, attrs)),
                                       Run(tail, cur.attributes) >>),
                               !.formatted = st.formatted + remaining,
                               !.i = st.i + 3,
                               !.offset = st.offset + Len(start) + remaining]
       ELSE IF remaining >= Len(str)
       THEN [st EXCEPT !.formatted = st.formatted + Len(str),
                       !.delta = SetRun(st.delta, st.i,
                            [cur EXCEPT !.attributes = ObjAssign(cur.attributes, attrs)]),
                       !.offset = st.offset + Len(str),
                       !.i = st.i + 1]
       ELSE LET startChunk == JsSlice(str, 0, remaining)
                endChunk == JsSliceFrom(str, remaining)
            IN [st EXCEPT !.delta = SetRun(
                                FormatFrontRest(st.delta, st.i, Run(endChunk, cur.attributes)),
                                st.i,
                                Run(startChunk, ObjAssign(cur.attributes, attrs))),
                          !.formatted = st.formatted + remaining]

RECURSIVE TextFormatLoop(_, _, _)
TextFormatLoop(st, attrs, retainVal) ==
    IF ~(retainVal > st.formatted) THEN st
    ELSE IF NoRun(st) THEN [st EXCEPT !.err = "TypeError"]   \* targetDelta[i] is undefined
    ELSE TextFormatLoop(TextFormatStep(st, attrs, retainVal - st.formatted), attrs, retainVal)

\* format branch: an op with attributes and no insert or delete
TextFormat(st, op) ==
    LET retainVal == IF Has(op.retain) THEN Val(op.retain) ELSE 0
        r == TextFormatLoop([delta |-> st.delta, i |-> st.i, offset |-> st.offset,
                             retainInner |-> st.retainInner, err |-> st.err,
                             formatted |-> 0], Val(op.attributes), retainVal)
    IN [delta |-> r.delta, i |-> r.i, offset |-> r.offset,
        retainInner |-> IF r.err = "none" THEN r.retainInner + retainVal ELSE r.retainInner,
        err |-> r.err]

RECURSIVE TextRetainLoop(_)
TextRetainLoop(st) ==
    IF st.i < Len(st.delta) /\ st.retainInner > st.offset + Len(st.delta[st.i + 1].insert)
    THEN TextRetainLoop([st EXCEPT !.offset = st.offset + Len(st.delta[st.i + 1].insert),
                                   !.i = st.i + 1])
    ELSE st

\* a retain handled as a format that sets no attribute
TextRetainAsFormat(st, op) == TextFormat(st, [op EXCEPT !.attributes = <<EmptyObj>>])

\* retain branch: an op with retain only
TextRetain(st, op) ==
    TextRetainLoop([st EXCEPT !.retainInner = st.retainInner + Val(op.retain)])

\* the body of "for (const delta of text)"
TextOp(st, op) ==
    IF Has(op.insert) THEN TextInsert(st, op)
    ELSE IF Has(op.delete) THEN TextDelete(st, op)
    ELSE IF Has(op.attributes) THEN TextFormat(st, op)
    ELSE IF Has(op.retain) THEN TextRetain(st, op)
    ELSE st

\* the cursor states at the op boundaries: trace[1] before the first op,
\* trace[k + 1] after op k; an exception ends the loop
RECURSIVE TextTrace(_, _)
TextTrace(trace, ops) ==
    IF ops = << >> \/ trace[Len(trace)].err # "none" THEN trace
    ELSE TextTrace(Append(trace, TextOp(trace[Len(trace)], Head(ops))), Tail(ops))

\* ------------------------------------------------------------------ schema
\* The schema of the document tests: root, child and text elements, and an
\* element type "leaf" that has value properties only (no ChildProperty).
SchemaTags == {"root", "child", "text", "leaf"}
RootTag == "root"

\* ChildProperty.childTagNames of each element type
ChildTagNames(tag) ==
    IF tag = "root" THEN {"child", "text"} ELSE IF tag = "leaf" THEN {} ELSE {"child"}

\* the property names of each element type (ElementType._propertyLookup)
PropertyNames(tag) ==
    IF tag = "text" THEN {"children", "hello"}
    ELSE IF tag = "leaf" THEN {"hello"}
    ELSE {"hello", "hi", "test", "children"}

\* ElementType.childPropertyName
ChildPropertyName(tag) == IF tag = "leaf" THEN Undefined ELSE "children"

\* -------------------------------------------------------------------- tree
\* The heap of Node objects: nodes[n] is the object with reference n, the
\* root Element is reference 0 and a null parent is -1.  Objects no longer
\* reachable from the root are dropped from the heap, and the remaining ones
\* are numbered in depth-first order.
NullRef == -1
RootRef == 0

ElementNode(parent, tagName, attributes) ==
    [kind |-> "element", parent |-> parent, tagName |-> tagName,
     attributes |-> attributes, children |-> << >>, delta |-> << >>]

TextNode(parent, delta) ==
    [kind |-> "text", parent |-> parent, tagName |-> "", attributes |-> EmptyObj,
     children |-> << >>, delta |-> delta]

\* get root(): new Element({parent: null, tagName: schema.root.tagName, attributes: {}})
RootNode == ElementNode(NullRef, RootTag, EmptyObj)

FreshRef(heap) == CHOOSE n \in 0..Cardinality(DOMAIN heap) :
                      n \notin DOMAIN heap /\ \A m \in 0..(n - 1) : m \in DOMAIN heap

\* the objects referenced from n, parent before children
RECURSIVE Preorder(_, _), PreorderAll(_, _)
Preorder(heap, n) == <<n>> \o PreorderAll(heap, heap[n].children)

PreorderAll(heap, kids) ==
    IF kids = << >> THEN << >>
    ELSE Preorder(heap, Head(kids)) \o PreorderAll(heap, Tail(kids))

\* the new reference of object n
Renumbered(order, n) ==
    IF n = NullRef THEN NullRef ELSE (CHOOSE i \in 1..Len(order) : order[i] = n) - 1

RenumberedHeap(heap, order) ==
    [i \in 0..(Len(order) - 1) |->
        [heap[order[i + 1]] EXCEPT
            !.parent = Renumbered(order, @),
            !.children = [j \in 1..Len(@) |-> Renumbered(order, @[j])]]]

\* the objects still referenced from the root
Collect(heap) == RenumberedHeap(heap, Preorder(heap, RootRef))

\* a node and everything below it, as a value: the node spec that creates it
RECURSIVE Subtree(_, _)
Subtree(heap, n) ==
    [kind |-> heap[n].kind, tagName |-> heap[n].tagName,
     attributes |-> heap[n].attributes,
     children |-> [j \in 1..Len(heap[n].children) |-> Subtree(heap, heap[n].children[j])],
     delta |-> heap[n].delta]

Subtrees(heap, kids) == [j \in 1..Len(kids) |-> Subtree(heap, kids[j])]

\* Element.id
\* an id read from the attribute "id"
NodeIdPlain(heap, n) == ObjGet(heap[n].attributes, "id")

\* get id(): this.getAttribute("$id")
NodeId(heap, n) == ObjGet(heap[n].attributes, "$id")

\* the children walked from the last to the first
GetChildrenReversed(heap, n) ==
    [j \in 1..Len(heap[n].children) |-> heap[n].children[Len(heap[n].children) + 1 - j]]

\* this.getChildren()
GetChildren(heap, n) == heap[n].children

\* Element.getNodeByID: depth first, parent before children, Elements only
RECURSIVE GetNodeByID(_, _, _), GetNodeByIDIn(_, _, _)
GetNodeByID(heap, n, id) ==
    IF id = NodeId(heap, n) THEN n ELSE GetNodeByIDIn(heap, GetChildren(heap, n), id)

GetNodeByIDIn(heap, kids, id) ==
    IF kids = << >> THEN NullRef
    ELSE LET found == IF heap[Head(kids)].kind = "element"
                      THEN GetNodeByID(heap, Head(kids), id) ELSE NullRef
         IN IF found # NullRef THEN found ELSE GetNodeByIDIn(heap, Tail(kids), id)

\* node specs of a change message
ElementSpec(tagName, attributes, children) ==
    [kind |-> "element", tagName |-> tagName, attributes |-> attributes,
     children |-> children, delta |-> << >>]

TextSpec(delta) ==
    [kind |-> "text", tagName |-> "", attributes |-> EmptyObj,
     children |-> << >>, delta |-> delta]

\* a node spec with neither "element" nor "text"
OtherSpec ==
    [kind |-> "other", tagName |-> "", attributes |-> EmptyObj,
     children |-> << >>, delta |-> << >>]

\* a nested node given the parent of the element that holds it
ChildParentOfElement(heap, element) == heap[element].parent

\* this._createNode(element, child): the parent handed to a nested node
ChildParent(heap, element) == element

\* RuntimeDocument._createNode: the heap afterwards, the new object and the
\* exception thrown, if any
RECURSIVE CreateNode(_, _, _), CreateChildren(_, _, _)
CreateNode(heap, parent, data) ==
    IF data.kind = "element"
    THEN IF data.tagName \notin SchemaTags
         THEN [heap |-> heap, ref |-> NullRef, err |-> "MeshSchemaValidationException"]
         ELSE LET ref == FreshRef(heap)
                  r == CreateChildren(
                         heap @@ (ref :> ElementNode(parent, data.tagName, data.attributes)),
                         ref, data.children)
              IN [heap |-> r.heap, ref |-> ref, err |-> r.err]
    ELSE IF data.kind = "text"
    THEN LET ref == FreshRef(heap)
         IN [heap |-> heap @@ (ref :> TextNode(parent, data.delta)), ref |-> ref, err |-> "none"]
    ELSE [heap |-> heap, ref |-> NullRef, err |-> "Unsupported node type"]

CreateChildren(heap, element, kids) ==
    IF kids = << >> THEN [heap |-> heap, err |-> "none"]
    ELSE LET r == CreateNode(heap, ChildParent(heap, element), Head(kids))
         IN IF r.err # "none" THEN [heap |-> r.heap, err |-> r.err]
            ELSE CreateChildren(
                   [r.heap EXCEPT ![element].children = Append(@, r.ref)],
                   element, Tail(kids))

\* ------------------------------------------------------------- element ops
\* a cursor that advances by every node created, descendants included
ElementInsertAdvancePerDescendant(retain, heap, ref) == retain + Len(Preorder(heap, ref))

\* the cursor after one node has been spliced in: retain++
ElementInsertAdvance(retain, heap, ref) == retain + 1

\* "for (const insert of delta.insert)": st is [heap, retain, err]
RECURSIVE ElementInsert(_, _, _)
ElementInsert(st, target, inserts) ==
    IF inserts = << >> \/ st.err # "none" THEN st
    ELSE LET insert == Head(inserts)
         IN IF insert.kind \in {"element", "text"}
            THEN LET r == CreateNode(st.heap, target, insert)
                 IN IF r.err # "none"
                    THEN [st EXCEPT !.heap = r.heap, !.err = r.err]
                    ELSE ElementInsert(
                           [st EXCEPT !.heap = [r.heap EXCEPT ![target].children =
                                                   JsSplice(@, st.retain, 0, <<r.ref>>)],
                                      !.retain = ElementInsertAdvance(st.retain, r.heap, r.ref)],
                           target, Tail(inserts))
            ELSE [st EXCEPT !.err = "Unsupported element delta"]

\* a cursor that stays where the delete found it
ElementDeleteCursorKept(retain, n) == retain

\* the cursor after a delete: retain -= delta["delete"]
ElementDeleteCursor(retain, n) == retain - n

\* a delete that removes the n entries before the cursor
ElementDeleteBeforeCursor(st, target, n) ==
    [st EXCEPT !.heap = [st.heap EXCEPT ![target].children =
                            JsSplice(@, st.retain - n, n, << >>)],
               !.retain = st.retain - n]

\* delete branch: children.splice(retain, n); retain -= n
ElementDelete(st, target, n) ==
    [st EXCEPT !.heap = [st.heap EXCEPT ![target].children = JsSplice(@, st.retain, n, << >>)],
               !.retain = ElementDeleteCursor(st.retain, n)]

\* the body of "for (const delta of elements)"
ElementOp(st, target, delta) ==
    LET st1 == IF Has(delta.retain)
               THEN [st EXCEPT !.retain = st.retain + Val(delta.retain)] ELSE st
    IN IF Has(delta.insert) THEN ElementInsert(st1, target, Val(delta.insert))
       ELSE IF Has(delta.delete) THEN ElementDelete(st1, target, Val(delta.delete))
       ELSE st1

RECURSIVE ElementOps(_, _, _)
ElementOps(st, target, deltas) ==
    IF deltas = << >> \/ st.err # "none" THEN st
    ELSE ElementOps(ElementOp(st, target, Head(deltas)), target, Tail(deltas))

\* ---------------------------------------------------------- receiveChanges
\* message["root"] === true ? this.root : this.root.getNodeByID(nodeID)
ResolveTarget(heap, message) ==
    IF message.root THEN RootRef ELSE GetNodeByID(heap, RootRef, message.target)

\* "Process attribute changes": the attribute map afterwards
RECURSIVE AttributeSets(_, _), AttributeDeletes(_, _)
AttributeSets(attrs, setList) ==
    IF setList = << >> THEN attrs
    ELSE AttributeSets(ObjSet(attrs, Head(setList).name, Head(setList).value), Tail(setList))

AttributeDeletes(attrs, delList) ==
    IF delList = << >> THEN attrs
    ELSE AttributeDeletes(ObjDelete(attrs, Head(delList)), Tail(delList))

\* The result of a call carries the heap as the call leaves it (also when
\* it throws), the exception, the text cursor trace and the events emitted.
Thrown(heap, target, err, trace) ==
    [heap |-> heap, target |-> target, err |-> err, trace |-> trace,
     nodeEvents |-> 0, docEvents |-> 0]

\* the delete list applied before the set list
AttributesAppliedDeletesFirst(attrs, attr) ==
    AttributeSets(AttributeDeletes(attrs, attr.delete), attr.set)

\* the set loop, then the delete loop
AttributesApplied(attrs, attr) ==
    AttributeDeletes(AttributeSets(attrs, attr.set), attr.delete)

\* "Process attribute changes", then the subscribers and the document event
ReceiveAttributes(heap, target, attr, trace) ==
    [heap |-> [heap EXCEPT ![target].attributes = AttributesApplied(@, attr)],
     target |-> target, err |-> "none", trace |-> trace,
     nodeEvents |-> Len(attr.set) + Len(attr.delete),
     docEvents |-> 1]

MessageAttributes(message) ==
    IF Has(message.attributes) THEN Val(message.attributes)
    ELSE [set |-> << >>, delete |-> << >>]

\* the end of "Process text deltas": the run list is left as the loop left it
ReceiveTextDone(heap, target, textNode, trace, message) ==
    IF trace[Len(trace)].err # "none"
    THEN Thrown([heap EXCEPT ![textNode].delta = trace[Len(trace)].delta],
                target, trace[Len(trace)].err, trace)
    ELSE ReceiveAttributes([heap EXCEPT ![textNode].delta = trace[Len(trace)].delta],
                           target, MessageAttributes(message), trace)

\* a guard that lets every target through
IsTextElementUnchecked(heap, target) == TRUE

\* target.tagName !== "text" throws
IsTextElement(heap, target) == heap[target].tagName = "text"

\* "Process text deltas"
ReceiveTextOps(heap, target, message) ==
    IF Len(message.text) = 0
    THEN ReceiveAttributes(heap, target, MessageAttributes(message), << >>)
    ELSE IF ~IsTextElement(heap, target)
    THEN Thrown(heap, target, "Node is not a text node", << >>)
    ELSE IF heap[target].children = << >> \/ heap[heap[target].children[1]].kind # "text"
    THEN Thrown(heap, target, "TypeError", << >>)
    ELSE ReceiveTextDone(heap, target, heap[target].children[1],
            TextTrace(<< TextState(heap[heap[target].children[1]].delta) >>, message.text),
            message)

\* the text and attribute streams follow the element stream unless it threw
ReceiveAfterElements(e, target, message) ==
    IF e.err # "none" THEN Thrown(e.heap, target, e.err, << >>)
    ELSE ReceiveTextOps(e.heap, target, message)

\* the text stream applied before the element stream
ReceiveOnTargetTextFirst(heap, target, message) ==
    LET t == ReceiveTextOps(heap, target, [message EXCEPT !.attributes = << >>])
        e == ElementOps([heap |-> t.heap, retain |-> 0, err |-> "none"], target, message.elements)
    IN IF t.err # "none" THEN t
       ELSE IF e.err # "none" THEN Thrown(e.heap, target, e.err, t.trace)
       ELSE ReceiveAttributes(e.heap, target, MessageAttributes(message), t.trace)

\* the three op-streams applied to a resolved target
ReceiveOnTarget(heap, target, message) ==
    ReceiveAfterElements(
        ElementOps([heap |-> heap, retain |-> 0, err |-> "none"], target, message.elements),
        target, message)

\* a receiveChanges that applies a message with an unknown target to the root
ReceiveResolvedOnRoot(heap, target, message) ==
    ReceiveOnTarget(heap, IF target = NullRef THEN RootRef ELSE target, message)

\* RuntimeDocument.receiveChanges as a function of the heap and the message
ReceiveResolved(heap, target, message) ==
    IF target = NullRef
    THEN Thrown(heap, NullRef, "Target node not found", << >>)
    ELSE ReceiveOnTarget(heap, target, message)

Receive(heap, message) == ReceiveResolved(heap, ResolveTarget(heap, message), message)

Message(root, target, elements, text, attributes) ==
    [root |-> root, target |-> target, elements |-> elements, text |-> text,
     attributes |-> attributes]

NoMessage == Message(FALSE, Undefined, << >>, << >>, << >>)

\* ------------------------------------------------------------------- state
VARIABLES
    nodes,       \* the heap of the RuntimeDocument's tree
    hist,        \* the last call on the document: its input, the heap before it, and its
                 \* outcome (exception, events emitted, intents handed to doc.sendChanges)
    calls,       \* SyncClient: the open/close calls and where each one stands
    started,     \* SyncClient: how many calls have been issued
    connecting,  \* SyncClient._connectingDocuments: path -> the call whose Completer is the marker
    completer,   \* the Completer created by each open call
    connected,   \* SyncClient._connectedDocuments: path -> RefCount
    registered,  \* the runtime's registry of documents (registerDocument/unregisterDocument)
    sent,        \* the requests sent to the room, per path and type
    subscribers, \* RuntimeDocument._changeSubscribers, in array order
    received,    \* SyncClient: the "room.sync" messages handed to _handleSync, in order
    schema,      \* the last call on MeshSchema: its input and its outcome
    changesToSync \* SyncClient._changesToSync and the loop of start() that sends from it

docVars == <<nodes, hist, subscribers>>
syncVars ==
    <<calls, started, connecting, completer, connected, registered, sent, received, schema,
      changesToSync>>
vars == <<nodes, hist, calls, started, connecting, completer, connected, registered, sent,
         subscribers, received, schema, changesToSync>>

\* prev: the heap before the call; raw: the heap as the call left it, in the
\* references of prev; target: the target in prev and raw; targetAfter: the
\* target in the renumbered heap; subscribed: the subscriber array before the
\* call; notified: the subscribers called, in call order
Hist(op, msg, prev, raw, target, targetAfter, err, trace, nodeEvents, docEvents, intents, notified) ==
    [op |-> op, msg |-> msg, prev |-> prev, raw |-> raw, target |-> target,
     targetAfter |-> targetAfter, err |-> err,
     trace |-> trace, nodeEvents |-> nodeEvents, docEvents |-> docEvents,
     sent |-> intents, subscribed |-> subscribers, notified |-> notified]

\* a call on the Local Mutation Gateway
GatewayHist(op, err, intents) ==
    Hist(op, NoMessage, nodes, nodes, NullRef, NullRef, err, << >>, 0, 0, intents, << >>)

InitHist(heap) ==
    Hist("init", NoMessage, heap, heap, NullRef, NullRef, "none", << >>, 0, 0, << >>, << >>)

\* the callbacks passed to listen(): two that only take the message and one
\* that calls the unsubscribe() of its own registration when it is called
Callbacks == {"first", "second", "once"}
UnsubscribingCallbacks == {"once"}

\* listen(onData).unsubscribe(): indexOf, then splice(idx, 1)
Unsubscribed(subs, s) ==
    IF \E k \in 1..Len(subs) : subs[k] = s
    THEN JsSplice(subs, (CHOOSE k \in 1..Len(subs) :
                            subs[k] = s /\ \A j \in 1..(k - 1) : subs[j] # s) - 1, 1, << >>)
    ELSE subs

\* sub(message): what the callback does to the subscriber array
SubscriberCalled(subs, s) ==
    IF s \in UnsubscribingCallbacks THEN Unsubscribed(subs, s) ELSE subs

\* for (const sub of this._changeSubscribers) sub(message): the iterator
\* reads the array as it is at each step
RECURSIVE NotifyLoop(_, _, _)
NotifyLoop(subs, idx, called) ==
    IF idx >= Len(subs) THEN [subs |-> subs, called |-> called]
    ELSE NotifyLoop(SubscriberCalled(subs, subs[idx + 1]), idx + 1,
                    Append(called, subs[idx + 1]))

\* a call that throws does not reach the subscribers
Notified(r) ==
    IF r.err = "none" THEN NotifyLoop(subscribers, 0, << >>)
    ELSE [subs |-> subscribers, called |-> << >>]

ReceiveNotify(message, r, n) ==
    /\ hist' = Hist("receiveChanges", message, nodes, r.heap, r.target,
                    Renumbered(Preorder(r.heap, RootRef), r.target),
                    r.err, r.trace, r.nodeEvents, r.docEvents, << >>, n.called)
    /\ subscribers' = n.subs

\* RuntimeDocument.receiveChanges(message)
ReceiveCommit(message, r, heap) ==
    /\ Cardinality(DOMAIN heap) <= MaxNodes
    /\ nodes' = heap
    /\ ReceiveNotify(message, r, Notified(r))
    /\ UNCHANGED syncVars

ReceiveResult(message, r) == ReceiveCommit(message, r, Collect(r.heap))

receiveChanges(message) == ReceiveResult(message, Receive(nodes, message))

\* -------------------------------------------------- Local Mutation Gateway
\* A change intent {documentID, changes: [{nodeID, <type>: args}]}; the
\* arguments a type does not carry keep their defaults.
NoArgs ==
    [name |-> Undefined, value |-> Undefined, index |-> -1, after |-> Undefined,
     children |-> << >>, text |-> << >>, from |-> -1, length |-> -1,
     attributes |-> EmptyObj]

Intent(nodeID, type, args) == [nodeID |-> nodeID, type |-> type, args |-> args]

\* doc.sendChanges(changes): the injected callback takes the intent
sendChanges(op, intent) ==
    /\ nodes' = nodes
    /\ hist' = GatewayHist(op, "none", <<intent>>)
    /\ UNCHANGED <<subscribers, syncVars>>

\* the call throws before anything is sent
GatewayThrows(op, err) ==
    /\ hist' = GatewayHist(op, err, << >>)
    /\ UNCHANGED <<nodes, subscribers, syncVars>>

Elements == {n \in DOMAIN nodes : nodes[n].kind = "element"}
TextElements == {n \in DOMAIN nodes : nodes[n].kind = "text"}

\* a setAttribute that also writes the attribute into the local node
ElementSetAttributeLocally(n, name, value) ==
    /\ nodes' = [nodes EXCEPT ![n].attributes = ObjSet(@, name, value)]
    /\ hist' = GatewayHist("Element.setAttribute", "none",
                    <<Intent(NodeId(nodes, n), "setAttributes",
                             [NoArgs EXCEPT !.name = name, !.value = value])>>)
    /\ UNCHANGED <<subscribers, syncVars>>

\* Element.setAttribute(name, value)
ElementSetAttribute(n, name, value) ==
    sendChanges("Element.setAttribute",
        Intent(NodeId(nodes, n), "setAttributes", [NoArgs EXCEPT !.name = name, !.value = value]))

\* Element.removeAttribute(name)
ElementRemoveAttribute(n, name) ==
    sendChanges("Element.removeAttribute",
        Intent(NodeId(nodes, n), "removeAttributes", [NoArgs EXCEPT !.name = name]))

\* the validation without _validateElementAttributes
ChildErrorOfTagOnly(n, tagName, attributes) ==
    IF ChildPropertyName(nodes[n].tagName) = Undefined THEN "Children are not allowed"
    ELSE IF tagName \notin ChildTagNames(nodes[n].tagName) THEN "Cannot add"
    ELSE IF tagName \notin SchemaTags THEN "MeshSchemaValidationException"
    ELSE "none"

\* Element._ensureChildValid and Element._validateElementAttributes: the
\* error thrown, "none" when the child is valid
ChildError(n, tagName, attributes) ==
    IF ChildPropertyName(nodes[n].tagName) = Undefined THEN "Children are not allowed"
    ELSE IF tagName \notin ChildTagNames(nodes[n].tagName) THEN "Cannot add"
    ELSE IF tagName \notin SchemaTags THEN "MeshSchemaValidationException"
    ELSE IF \E k \in DOMAIN attributes : k \notin PropertyNames(tagName)
    THEN "Property is not in schema"
    ELSE "none"

\* Element._defaultChildren
DefaultChildren(tagName) == IF tagName = "text" THEN <<TextSpec(<< >>)>> ELSE << >>

\* elementData of the create calls: {name, attributes: {$id, ...attributes}, children}
ElementData(tagName, attributes, newId) ==
    ElementSpec(tagName, ObjAssign("$id" :> newId, attributes), DefaultChildren(tagName))

\* The arguments of a create call; hist keeps them as the input of the call
\* and the element the call was made on as its target.
ChildArgs(tagName, attributes, sibling) ==
    [tagName |-> tagName, attributes |-> attributes, sibling |-> sibling]

CreateHist(op, n, args, err, intents) ==
    Hist(op, args, nodes, nodes, n, n, err, << >>, 0, 0, intents, << >>)

\* a create call throws before anything is sent
CreateThrows(op, n, args, err) ==
    /\ hist' = CreateHist(op, n, args, err, << >>)
    /\ UNCHANGED <<nodes, subscribers, syncVars>>

\* a create call hands its intent to doc.sendChanges
CreateSends(op, n, args, intent) ==
    /\ nodes' = nodes
    /\ hist' = CreateHist(op, n, args, "none", <<intent>>)
    /\ UNCHANGED <<subscribers, syncVars>>

\* Element.createChildElement(tagName, attributes, {id})
ElementCreateChildElement(n, tagName, attributes, newId) ==
    IF ChildError(n, tagName, attributes) # "none"
    THEN CreateThrows("Element.createChildElement", n, ChildArgs(tagName, attributes, NullRef),
                      ChildError(n, tagName, attributes))
    ELSE CreateSends("Element.createChildElement", n, ChildArgs(tagName, attributes, NullRef),
            Intent(NodeId(nodes, n), "insertChildren",
                   [NoArgs EXCEPT !.children = <<ElementData(tagName, attributes, newId)>>]))

\* Element.createChildElementAt(index, tagName, attributes, {id})
ElementCreateChildElementAt(n, index, tagName, attributes, newId) ==
    IF ChildError(n, tagName, attributes) # "none"
    THEN CreateThrows("Element.createChildElementAt", n, ChildArgs(tagName, attributes, NullRef),
                      ChildError(n, tagName, attributes))
    ELSE CreateSends("Element.createChildElementAt", n, ChildArgs(tagName, attributes, NullRef),
            Intent(NodeId(nodes, n), "insertChildren",
                   [NoArgs EXCEPT !.index = index,
                                  !.children = <<ElementData(tagName, attributes, newId)>>]))

\* element.parent?.id
ParentId(m) == IF nodes[m].parent = NullRef \/ nodes[m].parent \notin DOMAIN nodes
               THEN Undefined ELSE NodeId(nodes, nodes[m].parent)

\* createChildElementAfter without the test of the sibling's parent
ElementCreateChildElementAfterAnySibling(n, m, tagName, attributes, newId) ==
    IF ChildError(n, tagName, attributes) # "none"
    THEN CreateThrows("Element.createChildElementAfter", n, ChildArgs(tagName, attributes, m),
                      ChildError(n, tagName, attributes))
    ELSE CreateSends("Element.createChildElementAfter", n, ChildArgs(tagName, attributes, m),
            Intent(NodeId(nodes, n), "insertChildren",
                   [NoArgs EXCEPT !.after = NodeId(nodes, m),
                                  !.children = <<ElementData(tagName, attributes, newId)>>]))

\* Element.createChildElementAfter(element, tagName, attributes, {id})
ElementCreateChildElementAfter(n, m, tagName, attributes, newId) ==
    IF ChildError(n, tagName, attributes) # "none"
    THEN CreateThrows("Element.createChildElementAfter", n, ChildArgs(tagName, attributes, m),
                      ChildError(n, tagName, attributes))
    ELSE IF ParentId(m) # NodeId(nodes, n)
    THEN CreateThrows("Element.createChildElementAfter", n, ChildArgs(tagName, attributes, m),
                      "Element does not belong to this node")
    ELSE CreateSends("Element.createChildElementAfter", n, ChildArgs(tagName, attributes, m),
            Intent(NodeId(nodes, n), "insertChildren",
                   [NoArgs EXCEPT !.after = NodeId(nodes, m),
                                  !.children = <<ElementData(tagName, attributes, newId)>>]))

\* Element.delete()
ElementDeleteSelf(n) ==
    sendChanges("Element.delete", Intent(NodeId(nodes, n), "delete", NoArgs))

\* this.parent?.id of a TextElement
TextParentId(n) == ParentId(n)

\* TextElement.insert(index, text, attributes)
TextElementInsert(n, index, text, attributes) ==
    sendChanges("TextElement.insert",
        Intent(TextParentId(n), "insertText",
               [NoArgs EXCEPT !.index = index, !.text = text, !.attributes = attributes]))

\* TextElement.format(from, length, attributes)
TextElementFormat(n, from, length, attributes) ==
    sendChanges("TextElement.format",
        Intent(TextParentId(n), "formatText",
               [NoArgs EXCEPT !.from = from, !.length = length, !.attributes = attributes]))

\* TextElement.delete(index, length)
TextElementDelete(n, index, length) ==
    sendChanges("TextElement.delete",
        Intent(TextParentId(n), "deleteText",
               [NoArgs EXCEPT !.index = index, !.length = length]))

GatewayOps ==
    {"Element.setAttribute", "Element.removeAttribute", "Element.createChildElement",
     "Element.createChildElementAt", "Element.createChildElementAfter", "Element.delete",
     "TextElement.insert", "TextElement.format", "TextElement.delete"}

\* ----------------------------------------------------------------- MeshSchema
\* A property of an element type. kind "value": ValueProperty {name, type,
\* enumValues, required}; kind "child": ChildProperty {name, childTagNames,
\* ordered}. An absent enumValues is << >>, a given one <<values>>.
ValueProperty(name, type, enumValues, required) ==
    [kind |-> "value", name |-> name, type |-> type, enumValues |-> enumValues,
     required |-> required, childTagNames |-> << >>, ordered |-> FALSE]

ChildProperty(name, childTagNames, ordered) ==
    [kind |-> "child", name |-> name, type |-> "", enumValues |-> << >>,
     required |-> FALSE, childTagNames |-> childTagNames, ordered |-> ordered]

ElementType(tagName, properties) == [tagName |-> tagName, properties |-> properties]

\* The names every plain object inherits from Object.prototype: obj[name] is
\* a function for them although obj has no such key of its own.
ObjectPrototypeNames == {"constructor"}

\* what elementsByTagName[name] gives for an inherited name: a function, which
\* has no tagName and no properties
InheritedFunction == ElementType(Undefined, << >>)

\* obj[name] is truthy, for an object created as {} whose own values are objects
Truthy(obj, name) == name \in DOMAIN obj \/ name \in ObjectPrototypeNames

\* MeshSchema.element(name) on the map elementsByTagName
MeshSchemaElement(byTag, name) ==
    IF ~Truthy(byTag, name) THEN [err |-> "Element not found", el |-> InheritedFunction]
    ELSE IF name \in DOMAIN byTag THEN [err |-> "none", el |-> byTag[name]]
    ELSE [err |-> "none", el |-> InheritedFunction]

\* the constructor's loop "for (const t of elements)"
RECURSIVE ElementsByTagName(_, _)
ElementsByTagName(byTag, elements) ==
    IF elements = << >> THEN [err |-> "none", byTag |-> byTag]
    ELSE IF Truthy(byTag, Head(elements).tagName)
    THEN [err |-> "was found more than once", byTag |-> byTag]
    ELSE ElementsByTagName(ObjSet(byTag, Head(elements).tagName, Head(elements)),
                           Tail(elements))

\* ChildProperty.validate, ElementType.validate and MeshSchema.validate: some
\* schema.element(item) throws
ValidateThrows(byTag, elements) ==
    \E i \in DOMAIN elements :
        \E j \in DOMAIN elements[i].properties :
            /\ elements[i].properties[j].kind = "child"
            /\ \E k \in DOMAIN elements[i].properties[j].childTagNames :
                   MeshSchemaElement(byTag, elements[i].properties[j].childTagNames[k]).err
                       # "none"

\* the constructor after the loop
MeshSchemaChecked(rootTagName, elements, r) ==
    IF r.err # "none" THEN r
    ELSE IF ~Truthy(r.byTag, rootTagName) THEN [err |-> "was not found in tags", byTag |-> r.byTag]
    ELSE IF ValidateThrows(r.byTag, elements) THEN [err |-> "Element not found", byTag |-> r.byTag]
    ELSE r

\* new MeshSchema({rootTagName, elements}): the exception thrown, if any, and
\* elementsByTagName
MeshSchema(rootTagName, elements) ==
    MeshSchemaChecked(rootTagName, elements, ElementsByTagName(EmptyObj, elements))

\* ---- serialization
\* A JSON "type" is a string or an array of strings.
JsonString(t) == [array |-> FALSE, values |-> <<t>>]
JsonArray(ts) == [array |-> TRUE, values |-> ts]

\* `#/$defs/${tag}` as the pair of its pieces
RefPrefix == "#/$defs/"
Ref(tagName) == <<RefPrefix, tagName>>

\* refStr.startsWith(prefix) ? refStr.substring(prefix.length) : refStr
RefTagName(ref) == IF Len(ref) = 2 /\ ref[1] = RefPrefix THEN ref[2] ELSE ref[1]

RECURSIVE Refs(_), RefTagNames(_)
Refs(tagNames) ==
    IF tagNames = << >> THEN << >> ELSE <<Ref(Head(tagNames))>> \o Refs(Tail(tagNames))

RefTagNames(refs) ==
    IF refs = << >> THEN << >> ELSE <<RefTagName(Head(refs))>> \o RefTagNames(Tail(refs))

\* The JSON of one property: type, enum, prefixItems and items.anyOf, the
\* last three << >> when the key is absent.
PropertyJson(type, enum, prefixItems, anyOf) ==
    [type |-> type, enum |-> enum, prefixItems |-> prefixItems, anyOf |-> anyOf]

\* ValueProperty.toJson, the value under the property's name
ValuePropertyToJson(p) ==
    IF Has(p.enumValues) THEN PropertyJson(JsonString(p.type), p.enumValues, << >>, << >>)
    ELSE IF p.required THEN PropertyJson(JsonString(p.type), << >>, << >>, << >>)
    ELSE PropertyJson(JsonArray(<<p.type, "null">>), << >>, << >>, << >>)

\* ChildProperty.toJson, the value under the property's name
ChildPropertyToJson(p) ==
    IF p.ordered
    THEN PropertyJson(JsonString("array"), << >>, <<Refs(p.childTagNames)>>, << >>)
    ELSE PropertyJson(JsonString("array"), << >>, << >>, <<Refs(p.childTagNames)>>)

PropertyToJson(p) == IF p.kind = "child" THEN ChildPropertyToJson(p) ELSE ValuePropertyToJson(p)

\* an entry of a JSON object, in insertion order
Entry(key, value) == [key |-> key, value |-> value]

RECURSIVE PropertiesToJson(_)
PropertiesToJson(properties) ==
    IF properties = << >> THEN << >>
    ELSE <<Entry(Head(properties).name, PropertyToJson(Head(properties)))>>
             \o PropertiesToJson(Tail(properties))

\* ElementType.toJson: {properties: {[tagName]: {properties: props}}}
ElementTypeToJson(e) == <<Entry(e.tagName, PropertiesToJson(e.properties))>>

\* SimpleValue.fromString
SimpleValues == {"number", "string", "null", "boolean"}

\* the body of the loop of ElementType.fromJson for one property
PropertyFromJson(name, pMap) ==
    LET required == ~(pMap.type.array /\ Len(pMap.type.values) > 0)
        pTypeValue == pMap.type.values[1]
    IN IF pTypeValue = "array"
       THEN IF Has(pMap.prefixItems)
            THEN [err |-> "none",
                  p |-> ChildProperty(name, RefTagNames(Val(pMap.prefixItems)), TRUE)]
            ELSE IF Has(pMap.anyOf)
            THEN [err |-> "none",
                  p |-> ChildProperty(name, RefTagNames(Val(pMap.anyOf)), FALSE)]
            ELSE [err |-> "Invalid array type encountered", p |-> ChildProperty(name, << >>, FALSE)]
       ELSE IF pTypeValue \notin SimpleValues
       THEN [err |-> "Invalid value type", p |-> ChildProperty(name, << >>, FALSE)]
       ELSE [err |-> "none", p |-> ValueProperty(name, pTypeValue, pMap.enum, required)]

RECURSIVE PropertiesFromJson(_)
PropertiesFromJson(entries) ==
    IF entries = << >> THEN [err |-> "none", properties |-> << >>]
    ELSE LET first == PropertyFromJson(Head(entries).key, Head(entries).value)
             rest == PropertiesFromJson(Tail(entries))
         IN IF first.err # "none" THEN [err |-> first.err, properties |-> << >>]
            ELSE IF rest.err # "none" THEN rest
            ELSE [err |-> "none", properties |-> <<first.p>> \o rest.properties]

\* the loop of the constructor of ElementType: childSeen is "a child
\* property name is set", names the keys of _propertyLookup
RECURSIVE ElementTypeLoop(_, _, _)
ElementTypeLoop(properties, childSeen, names) ==
    IF properties = << >> THEN "none"
    ELSE IF Head(properties).kind = "child" /\ childSeen
    THEN "Only one child property is allowed"
    ELSE IF Head(properties).name \in names THEN "Duplicate property"
    ELSE ElementTypeLoop(Tail(properties), childSeen \/ Head(properties).kind = "child",
                         names \cup {Head(properties).name})

\* new ElementType({tagName, properties}): the exception of the constructor
ElementTypeError(properties) == ElementTypeLoop(properties, FALSE, {})

\* ElementType.fromJson
ElementTypeFromJson(json) ==
    IF json = << >> THEN [err |-> "Invalid schema json: no properties found",
                          e |-> ElementType("", << >>)]
    ELSE LET r == PropertiesFromJson(json[1].value)
         IN IF r.err # "none" THEN [err |-> r.err, e |-> ElementType("", << >>)]
            ELSE [err |-> ElementTypeError(r.properties),
                  e |-> ElementType(json[1].key, r.properties)]

RECURSIVE DefsToJson(_), DefsFromJson(_)
DefsToJson(elements) ==
    IF elements = << >> THEN << >>
    ELSE <<Entry(Head(elements).tagName, ElementTypeToJson(Head(elements)))>>
             \o DefsToJson(Tail(elements))

\* MeshSchema.toJson: $root_tag_ref and $defs
MeshSchemaToJson(rootTagName, elements) ==
    [rootTagRef |-> Ref(rootTagName), defs |-> DefsToJson(elements)]

DefsFromJson(defs) ==
    IF defs = << >> THEN [err |-> "none", elements |-> << >>]
    ELSE LET first == ElementTypeFromJson(Head(defs).value)
             rest == DefsFromJson(Tail(defs))
         IN IF first.err # "none" THEN [err |-> first.err, elements |-> << >>]
            ELSE IF rest.err # "none" THEN rest
            ELSE [err |-> "none", elements |-> <<first.e>> \o rest.elements]

NoSchema == [err |-> "none", rootTagName |-> "", elements |-> << >>]

\* MeshSchema.fromJson
MeshSchemaFromJsonOf(rootTagName, r) ==
    IF r.err # "none" THEN [NoSchema EXCEPT !.err = r.err]
    ELSE [err |-> MeshSchema(rootTagName, r.elements).err, rootTagName |-> rootTagName,
          elements |-> r.elements]

MeshSchemaFromJson(json) ==
    MeshSchemaFromJsonOf(RefTagName(json.rootTagRef), DefsFromJson(json.defs))

\* a call on MeshSchema: the schema it was made on, the tag looked up, the
\* exception thrown, the value returned and the schema read back
SchemaCall(op, rootTagName, elements, byTag, name, err, el, back) ==
    [op |-> op, rootTagName |-> rootTagName, elements |-> elements, byTag |-> byTag,
     name |-> name, err |-> err, el |-> el, back |-> back]

\* no call on MeshSchema yet
NoSchemaCall == SchemaCall("none", "", << >>, EmptyObj, "", "none", InheritedFunction, NoSchema)

\* ------------------------------------------------------------- sync client
Paths == {"doc/a", "doc/b"}
Calls == 1..MaxCalls

NoRefCount == [ref |-> 0, count |-> 0]

\* new StreamController(), and the loop of start() not yet begun. queue and
\* waiters are the controller's arrays (one loop reads the stream, so the
\* waiters are counted); result is what the promise returned by next() has
\* settled to; requests are the room.sync requests sent, in order, and
\* outstanding counts those without a response; added counts the calls of add
NoResult == [done |-> FALSE, value |-> << >>]
NewStreamController ==
    [queue |-> << >>, waiters |-> 0, closed |-> FALSE, pc |-> "notStarted",
     result |-> NoResult, requests |-> << >>, outstanding |-> 0, added |-> 0]

NewCall == [pc |-> "new", op |-> "none", path |-> "", waitOn |-> 0, doc |-> 0]

SyncInit ==
    /\ calls = [c \in Calls |-> NewCall]
    /\ started = 0
    /\ connecting = [p \in Paths |-> 0]
    /\ completer = [c \in Calls |-> "none"]
    /\ connected = [p \in Paths |-> NoRefCount]
    /\ registered = {}
    /\ sent = [p \in Paths |-> [connect |-> 0, disconnect |-> 0]]
    /\ received = << >>
    /\ schema = NoSchemaCall
    /\ changesToSync = NewStreamController

\* -------------------------------------------------- text op-stream checks
\* The merge engine's text branch as a function of the run list and the op
\* list: a document holding one "text" element is given an initial run list
\* and receives one message carrying text ops.
Letters == <<"a", "b", "c", "d", "e", "f">>

Bold == "bold" :> TRUE
Italic == "italic" :> TRUE @@ "bold" :> FALSE

RunAttributes == {EmptyObj, Bold}

\* every split of the string s into at most r runs (empty runs included)
RECURSIVE RunLists(_, _)
RunLists(s, r) ==
    (IF s = << >> THEN {<< >>} ELSE {}) \cup
    (IF r = 0 THEN {}
     ELSE UNION {{<<Run(SubSeq(s, 1, k), a)>> \o rest :
                     rest \in RunLists(SubSeq(s, k + 1, Len(s)), r - 1)} :
                 k \in 0..Len(s), a \in RunAttributes})

InitialDeltas == UNION {RunLists(SubSeq(Letters, 1, n), MaxRuns) : n \in 0..MaxText}

TextOpOf(insert, delete, retain, attributes) ==
    [insert |-> insert, delete |-> delete, retain |-> retain, attributes |-> attributes]

RetainTextOp(n) == TextOpOf(<< >>, << >>, <<n>>, << >>)
InsertTextOp(str) == TextOpOf(<<str>>, << >>, << >>, << >>)
DeleteTextOp(n) == TextOpOf(<< >>, <<n>>, << >>, << >>)
FormatTextOp(n, attrs) == TextOpOf(<< >>, << >>, <<n>>, <<attrs>>)

\* an insert that carries attributes
InsertTextOpWith(str, attrs) == TextOpOf(<<str>>, << >>, << >>, <<attrs>>)

TextOps ==
    {RetainTextOp(n) : n \in 1..2} \cup {InsertTextOp(<<"x">>), InsertTextOpWith(<<"y">>, Italic)}
    \cup {DeleteTextOp(n) : n \in 1..2} \cup {FormatTextOp(n, Italic) : n \in 1..2}

RECURSIVE SeqsUpTo(_, _)
SeqsUpTo(S, n) ==
    IF n = 0 THEN {<< >>}
    ELSE LET shorter == SeqsUpTo(S, n - 1)
         IN shorter \cup {Append(q, x) : q \in shorter, x \in S}

TextOpLists == SeqsUpTo(TextOps, MaxOps) \ {<< >>}

TextElementId == "t"

\* root -> <text $id="t"> -> TextElement(delta)
TextHeap(delta) ==
    (0 :> [RootNode EXCEPT !.children = <<1>>])
    @@ (1 :> [ElementNode(0, "text", "$id" :> TextElementId) EXCEPT !.children = <<2>>])
    @@ (2 :> TextNode(1, delta))

TextInit ==
    /\ \E delta \in InitialDeltas : nodes = TextHeap(delta)
    /\ subscribers = << >>
    /\ hist = InitHist(nodes)
    /\ SyncInit

ReceiveText ==
    /\ hist.op = "init"
    /\ \E ops \in TextOpLists :
          receiveChanges(Message(FALSE, TextElementId, << >>, ops, << >>))

TextNext == ReceiveText

SpecText == TextInit /\ [][TextNext]_vars

\* ----------------------------------------------------- document behaviour
\* A document that starts with its root only, receives change messages and
\* is edited through the Local Mutation Gateway.
Ids == {"x", "y"}

Leaf(id) == ElementSpec("child", ("$id" :> id) @@ ("hello" :> "world"), << >>)
Branch(id, kid) == ElementSpec("child", "$id" :> id, <<Leaf(kid)>>)
TextChild(id) == ElementSpec("text", "$id" :> id, <<TextSpec(<< >>)>>)

InsertSpecs == {Leaf("x"), Leaf("y"), Branch("x", "y"), TextChild("y")}

ElementOpOf(retain, insert, delete) ==
    [retain |-> retain, insert |-> insert, delete |-> delete]

RetainElementOp(k) == ElementOpOf(<<k>>, << >>, << >>)
InsertElementOp(specs) == ElementOpOf(<< >>, <<specs>>, << >>)
DeleteElementOp(n) == ElementOpOf(<< >>, << >>, <<n>>)

RetainCounts == 0..1

ElementOpLists ==
    {<<RetainElementOp(k), InsertElementOp(<<X>>)>> : k \in RetainCounts, X \in InsertSpecs}
    \cup {<<RetainElementOp(k), InsertElementOp(XS)>> :
             k \in RetainCounts,
             XS \in {<<Leaf("x"), Leaf("y")>>, <<Branch("x", "y"), Leaf("y")>>}}
    \cup {<<RetainElementOp(k), DeleteElementOp(n)>> : k \in RetainCounts, n \in 1..2}
    \cup {<<ElementOpOf(<<1>>, <<<<Leaf("y")>>>>, << >>)>>,
          <<InsertElementOp(<<OtherSpec>>)>>,
          <<DeleteElementOp(1), InsertElementOp(<<Leaf("x")>>)>>}

\* op lists that go on after a delete: an insert, or a retain and an insert
DeleteThenInsertLists ==
    {<<RetainElementOp(k), DeleteElementOp(n), InsertElementOp(<<Leaf("x")>>)>> :
        k \in 1..2, n \in 1..2}
    \cup {<<RetainElementOp(k), DeleteElementOp(n), ElementOpOf(<<r>>, <<<<Leaf("x")>>>>, << >>)>> :
             k \in {0}, n \in 1..2, r \in {2}}

AttributeOps ==
    {[set |-> <<[name |-> "hello", value |-> "world"]>>, delete |-> << >>],
     [set |-> << >>, delete |-> <<"hello">>]}

RootTarget == [root |-> TRUE, target |-> Undefined]
IdTarget(id) == [root |-> FALSE, target |-> id]

DocMessages ==
    {Message(t.root, t.target, ops, << >>, << >>) :
        t \in {RootTarget, IdTarget("x")}, ops \in ElementOpLists}
    \cup {Message(FALSE, "zz", <<RetainElementOp(0), InsertElementOp(<<Leaf("x")>>)>>,
                  << >>, << >>)}
    \cup {Message(TRUE, Undefined, ops, << >>, << >>) : ops \in DeleteThenInsertLists}
    \cup {Message(FALSE, id, << >>, <<InsertTextOp(<<"x">>)>>, << >>) : id \in Ids}
    \cup {Message(FALSE, "x", << >>, << >>, <<a>>) : a \in AttributeOps}

DocInit ==
    /\ nodes = (RootRef :> RootNode)
    /\ subscribers = << >>
    /\ hist = InitHist(nodes)
    /\ SyncInit

ReceiveDoc ==
    \E message \in DocMessages :
        /\ receiveChanges(message)
        /\ \A n \in DOMAIN nodes' : Len(TextOf(nodes'[n].delta)) <= MaxDocText

DocNext == ReceiveDoc

SpecDoc == DocInit /\ [][DocNext]_vars

\* ------------------------------------------- gateway calls on a document
\* The gateway calls on a document whose tree is built by a few messages.
ChildlessLeaf(id) == ElementSpec("leaf", "$id" :> id, << >>)

GatewayMessages ==
    {Message(TRUE, Undefined, <<InsertElementOp(<<Leaf("x")>>)>>, << >>, << >>),
     Message(TRUE, Undefined, <<InsertElementOp(<<TextChild("y")>>)>>, << >>, << >>),
     Message(FALSE, "x", <<InsertElementOp(<<Leaf("y")>>)>>, << >>, << >>),
     Message(TRUE, Undefined, <<InsertElementOp(<<ChildlessLeaf("y")>>)>>, << >>, << >>),
     Message(TRUE, Undefined, <<DeleteElementOp(1)>>, << >>, << >>)}

ReceiveGateway ==
    \E message \in GatewayMessages :
        /\ receiveChanges(message)
        /\ Cardinality(DOMAIN nodes') <= MaxGatewayNodes

GatewayTags == {"child", "text", "bogus"}
GatewayAttributes == {EmptyObj, "hello" :> "world", "bad" :> "world"}

SetAttribute == \E n \in Elements : ElementSetAttribute(n, "hello", "mod")
RemoveAttribute == \E n \in Elements : ElementRemoveAttribute(n, "hello")
CreateChildElement ==
    \E n \in Elements, tag \in GatewayTags, attrs \in GatewayAttributes, id \in Ids :
        ElementCreateChildElement(n, tag, attrs, id)
CreateChildElementAt ==
    \E n \in Elements, index \in 0..1, tag \in GatewayTags, attrs \in GatewayAttributes :
        ElementCreateChildElementAt(n, index, tag, attrs, "x")
CreateChildElementAfter ==
    \E n \in Elements, m \in Elements, tag \in GatewayTags, attrs \in GatewayAttributes :
        ElementCreateChildElementAfter(n, m, tag, attrs, "x")
DeleteElement == \E n \in Elements : ElementDeleteSelf(n)
InsertText == \E n \in TextElements : TextElementInsert(n, 0, <<"x">>, EmptyObj)
FormatText == \E n \in TextElements : TextElementFormat(n, 0, 1, Bold)
DeleteText == \E n \in TextElements : TextElementDelete(n, 0, 1)

GatewayNext ==
    \/ ReceiveGateway
    \/ SetAttribute
    \/ RemoveAttribute
    \/ CreateChildElement
    \/ CreateChildElementAt
    \/ CreateChildElementAfter
    \/ DeleteElement
    \/ InsertText
    \/ FormatText
    \/ DeleteText

SpecGateway == DocInit /\ [][GatewayNext]_vars

\* --------------------------------------- messages, events and subscribers
\* A document with raw-message subscribers that receives messages carrying
\* one, two or three op-streams, on targets that exist and that do not.
SetEntry(name, value) == [name |-> name, value |-> value]
AttributeOp(setList, delList) == [set |-> setList, delete |-> delList]

ListenAttributeOps ==
    {AttributeOp(<<SetEntry("hello", "mod"), SetEntry("hi", "there")>>, << >>),
     AttributeOp(<<SetEntry("hello", "mod")>>, <<"hello", "test">>),
     AttributeOp(<<SetEntry("hi", "one"), SetEntry("hi", "there")>>, <<"hello">>)}

InsertAtStart(spec) == <<RetainElementOp(0), InsertElementOp(<<spec>>)>>

ListenMessages ==
    {Message(TRUE, Undefined, InsertAtStart(Leaf("x")), << >>, << >>),
     Message(TRUE, Undefined, InsertAtStart(TextChild("y")), << >>, << >>),
     Message(TRUE, Undefined, <<DeleteElementOp(1)>>, << >>, << >>),
     Message(TRUE, Undefined, << >>, << >>, << >>),
     Message(FALSE, "y", << >>, <<InsertTextOp(<<"x">>)>>, << >>),
     Message(FALSE, "x", << >>, <<InsertTextOp(<<"x">>)>>, << >>),
     Message(FALSE, "x", <<InsertElementOp(<<OtherSpec>>)>>, << >>, << >>)}
    \cup {Message(FALSE, "x", << >>, << >>, <<a>>) : a \in ListenAttributeOps}
    \cup {Message(FALSE, id, InsertAtStart(Leaf("y")), <<InsertTextOp(<<"x">>)>>,
                  <<AttributeOp(<<SetEntry("hello", "mod")>>, <<"hi">>)>>) :
             id \in {"x", "y", "zz"}}
    \cup {Message(FALSE, "y", InsertAtStart(TextSpec(<< >>)), <<InsertTextOp(<<"x">>)>>,
                  <<AttributeOp(<<SetEntry("hello", "mod")>>, << >>)>>)}

ReceiveListen ==
    \E message \in ListenMessages :
        /\ receiveChanges(message)
        /\ Cardinality(DOMAIN nodes') <= MaxListenNodes
        /\ \A n \in DOMAIN nodes' : Len(TextOf(nodes'[n].delta)) <= MaxDocText

\* RuntimeDocument.listen(onData)
Listen ==
    \E s \in Callbacks :
        /\ \A k \in 1..Len(subscribers) : subscribers[k] # s
        /\ subscribers' = Append(subscribers, s)
        /\ hist' = GatewayHist("listen", "none", << >>)
        /\ UNCHANGED <<nodes, syncVars>>

\* unsubscribe() of a registration, called outside any notification
Unsubscribe ==
    \E s \in Callbacks :
        /\ \E k \in 1..Len(subscribers) : subscribers[k] = s
        /\ subscribers' = Unsubscribed(subscribers, s)
        /\ hist' = GatewayHist("unsubscribe", "none", << >>)
        /\ UNCHANGED <<nodes, syncVars>>

ListenNext ==
    \/ ReceiveListen
    \/ Listen
    \/ Unsubscribe

SpecListen == DocInit /\ [][ListenNext]_vars

\* ------------------------------------------------- messages on "$id"
\* A document that receives attribute ops naming "$id" among its messages.
IdAttributeOps ==
    {AttributeOp(<<SetEntry("$id", "y")>>, << >>),
     AttributeOp(<< >>, <<"$id">>),
     AttributeOp(<<SetEntry("hello", "mod")>>, << >>)}

IdMessages ==
    {Message(TRUE, Undefined, InsertAtStart(Leaf("x")), << >>, << >>),
     Message(TRUE, Undefined, InsertAtStart(TextChild("y")), << >>, << >>),
     Message(TRUE, Undefined, <<DeleteElementOp(1)>>, << >>, << >>)}
    \cup {Message(FALSE, id, << >>, << >>, <<a>>) : id \in Ids, a \in IdAttributeOps}

ReceiveIds ==
    \E message \in IdMessages :
        /\ receiveChanges(message)
        /\ Cardinality(DOMAIN nodes') <= MaxListenNodes

IdsNext == ReceiveIds

SpecIds == DocInit /\ [][IdsNext]_vars

\* -------------------------------------------------- calls on MeshSchema
nonSchemaVars ==
    <<nodes, hist, subscribers, calls, started, connecting, completer, connected, registered,
      sent, received, changesToSync>>

\* the tags of the schemas constructed, the element types and their lists
SchemaTagInputs == {"a", "b", "constructor"}

ChildTagLists == {<< >>, <<"a">>, <<"b">>, <<"constructor">>, <<"a", "b">>}

PlainElementTypes ==
    {ElementType(t, props) :
        t \in SchemaTagInputs,
        props \in {<< >>} \cup {<<ChildProperty("children", l, FALSE)>> : l \in ChildTagLists}}

RECURSIVE ListsUpTo(_, _)
ListsUpTo(S, n) ==
    IF n = 0 THEN {<< >>}
    ELSE ListsUpTo(S, n - 1) \cup {Append(l, x) : l \in ListsUpTo(S, n - 1), x \in S}

\* new MeshSchema({rootTagName, elements}), once
NewMeshSchemaOf(rootTagName, elements, r) ==
    /\ schema' = SchemaCall("new", rootTagName, elements, r.byTag, "", r.err, InheritedFunction,
                            NoSchema)
    /\ UNCHANGED nonSchemaVars

\* the schemas that are written and read back
Properties ==
    {ValueProperty("p", type, enumValues, required) :
        type \in {"string", "null"}, enumValues \in {<< >>, <<<<"u">>>>}, required \in BOOLEAN}
    \cup {ValueProperty("q", "string", << >>, required) : required \in BOOLEAN}
    \cup {ChildProperty("children", l, ordered) :
             l \in {<< >>, <<"a", "b">>}, ordered \in BOOLEAN}

RichElementTypes ==
    {ElementType("a", props) :
        props \in {l \in ListsUpTo(Properties, MaxProperties) : ElementTypeError(l) = "none"}}

RichSchemas ==
    {<<e>> : e \in RichElementTypes}
    \cup {<<e, ElementType("b", << >>)>> : e \in RichElementTypes}
    \cup {<<ElementType("b", << >>), e>> : e \in RichElementTypes}

NewRichMeshSchema ==
    /\ schema.op = "none"
    /\ \E rootTagName \in {"a", "b"}, elements \in RichSchemas :
           NewMeshSchemaOf(rootTagName, elements, MeshSchema(rootTagName, elements))

\* MeshSchema.fromJson(schema.toJson()) on the schema constructed last
RoundTrip ==
    /\ schema.op = "new" /\ schema.err = "none"
    /\ schema' = [schema EXCEPT
                     !.op = "roundTrip",
                     !.back = MeshSchemaFromJson(MeshSchemaToJson(schema.rootTagName,
                                                                  schema.elements))]
    /\ UNCHANGED nonSchemaVars

NewMeshSchema ==
    /\ schema.op = "none"
    /\ \E rootTagName \in SchemaTagInputs, elements \in ListsUpTo(PlainElementTypes, MaxElements) :
           NewMeshSchemaOf(rootTagName, elements, MeshSchema(rootTagName, elements))

\* schema.element(name) on the schema constructed last
ElementOf(name, r) ==
    /\ schema' = [schema EXCEPT !.op = "element", !.name = name, !.err = r.err, !.el = r.el]
    /\ UNCHANGED nonSchemaVars

Element ==
    /\ schema.op \in {"new", "element"}
    /\ schema.op = "new" => schema.err = "none"
    /\ \E name \in SchemaTagInputs : ElementOf(name, MeshSchemaElement(schema.byTag, name))

SchemaNext ==
    \/ NewMeshSchema
    \/ NewRichMeshSchema
    \/ Element
    \/ RoundTrip

SpecSchema == DocInit /\ [][SchemaNext]_vars

\* ------------------------------------------------ SyncClient open / close
\* A call runs from one await to the next in one step; at an await any other
\* call may run. pc: "new" (not issued), "awaitPending" (open, line 129),
\* "awaitConnect" (open, line 144), "awaitDisconnect" (close, line 186),
\* "resolved", "rejected".
Call(pc, op, path, waitOn, doc) ==
    [pc |-> pc, op |-> op, path |-> path, waitOn |-> waitOn, doc |-> doc]

\* new RefCount(doc): the count of a fresh RefCount
RefCountInitial == 1

RefCount(doc) == [ref |-> doc, count |-> RefCountInitial]

IsConnected(path) == connected[path] # NoRefCount

\* open, connected branch: rc.count++
OpenConnectedCountWithoutIncrement(count) == count

OpenConnectedCount(count) == count + 1

\* open from line 132 on, up to the await of the connect response
OpenBody(c, path) ==
    IF IsConnected(path)
    THEN /\ connected' = [connected EXCEPT ![path].count = OpenConnectedCount(@)]
         /\ calls' = [calls EXCEPT ![c] = Call("resolved", "open", path, calls[c].waitOn,
                                              connected[path].ref)]
         /\ UNCHANGED <<connecting, completer, registered, sent>>
    ELSE /\ completer' = [completer EXCEPT ![c] = "pending"]
         /\ connecting' = [connecting EXCEPT ![path] = c]
         /\ sent' = [sent EXCEPT ![path].connect = @ + 1]
         /\ calls' = [calls EXCEPT ![c] = Call("awaitConnect", "open", path, calls[c].waitOn, 0)]
         /\ UNCHANGED <<connected, registered>>

\* open: if (pending)
HasPendingNever(path) == FALSE

HasPending(path) == connecting[path] # 0

\* open(path) is called
OpenCall(c, path) ==
    /\ c = started + 1
    /\ started' = c
    /\ IF HasPending(path)
       THEN /\ calls' = [calls EXCEPT ![c] = Call("awaitPending", "open", path, connecting[path], 0)]
            /\ UNCHANGED <<connecting, completer, connected, registered, sent>>
       ELSE OpenBody(c, path)
    /\ UNCHANGED docVars

\* an await that goes on whatever the promise settled to
AwaitThrowsNever(outcome) == FALSE

\* await pending: a rejected promise throws out of open
AwaitThrows(outcome) == outcome = "rejected"

\* the marker an open awaited has settled
OpenResume(c) ==
    /\ calls[c].pc = "awaitPending"
    /\ completer[calls[c].waitOn] \in {"resolved", "rejected"}
    /\ IF AwaitThrows(completer[calls[c].waitOn])
       THEN /\ calls' = [calls EXCEPT ![c].pc = "rejected"]
            /\ UNCHANGED <<connecting, completer, connected, registered, sent>>
       ELSE OpenBody(c, calls[c].path)
    /\ UNCHANGED <<started, docVars>>

\* the response to room.connect arrives; the document of call c is named c
OpenConnected(c) ==
    /\ calls[c].pc = "awaitConnect"
    /\ registered' = registered \cup {c}
    /\ connected' = [connected EXCEPT ![calls[c].path] = RefCount(c)]
    /\ completer' = [completer EXCEPT ![c] = "resolved"]
    /\ connecting' = [connecting EXCEPT ![calls[c].path] = 0]
    /\ calls' = [calls EXCEPT ![c].pc = "resolved", ![c].doc = c]
    /\ UNCHANGED <<started, sent, docVars>>

\* a catch block that leaves the completer as it is
CompleteErrorSkipped(state) == state

\* c.completeError(err)
CompleteError(state) == "rejected"

\* room.connect fails, or the schema of the response does not parse
OpenConnectFailed(c) ==
    /\ calls[c].pc = "awaitConnect"
    /\ completer' = [completer EXCEPT ![c] = CompleteError(@)]
    /\ connecting' = [connecting EXCEPT ![calls[c].path] = 0]
    /\ calls' = [calls EXCEPT ![c].pc = "rejected"]
    /\ UNCHANGED <<started, connected, registered, sent, docVars>>

\* close: if (rc.count === 0), on the decremented count
CloseTearsDownBelowTwo(count) == count <= 1

CloseTearsDown(count) == count = 0

\* a teardown that leaves the entry in the registry with the count it reached
ClosedEntryKept(rc) == [rc EXCEPT !.count = @ - 1]

\* delete this._connectedDocuments[path]
ClosedEntry(rc) == NoRefCount

\* close(path) is called
CloseCall(c, path) ==
    /\ c = started + 1
    /\ started' = c
    /\ IF ~IsConnected(path)
       THEN /\ calls' = [calls EXCEPT ![c] = Call("rejected", "close", path, 0, 0)]
            /\ UNCHANGED <<connected, sent>>
       ELSE IF CloseTearsDown(connected[path].count - 1)
       THEN /\ connected' = [connected EXCEPT ![path] = ClosedEntry(@)]
            /\ sent' = [sent EXCEPT ![path].disconnect = @ + 1]
            /\ calls' = [calls EXCEPT ![c] =
                            Call("awaitDisconnect", "close", path, 0, connected[path].ref)]
       ELSE /\ connected' = [connected EXCEPT ![path].count = @ - 1]
            /\ calls' = [calls EXCEPT ![c] =
                            Call("resolved", "close", path, 0, connected[path].ref)]
            /\ UNCHANGED sent
    /\ UNCHANGED <<connecting, completer, registered, docVars>>

\* the response to room.disconnect arrives
CloseDisconnected(c) ==
    /\ calls[c].pc = "awaitDisconnect"
    /\ registered' = registered \ {calls[c].doc}
    /\ calls' = [calls EXCEPT ![c].pc = "resolved"]
    /\ UNCHANGED <<started, connecting, completer, connected, sent, docVars>>

\* room.disconnect fails
CloseDisconnectFailed(c) ==
    /\ calls[c].pc = "awaitDisconnect"
    /\ calls' = [calls EXCEPT ![c].pc = "rejected"]
    /\ UNCHANGED <<started, connecting, completer, connected, registered, sent, docVars>>

Open == \E c \in Calls, path \in Paths : OpenCall(c, path) /\ UNCHANGED <<received, schema, changesToSync>>
Resume == \E c \in Calls : OpenResume(c) /\ UNCHANGED <<received, schema, changesToSync>>
Connected == \E c \in Calls : OpenConnected(c) /\ UNCHANGED <<received, schema, changesToSync>>
ConnectFailed == \E c \in Calls : OpenConnectFailed(c) /\ UNCHANGED <<received, schema, changesToSync>>
Close == \E c \in Calls, path \in Paths : CloseCall(c, path) /\ UNCHANGED <<received, schema, changesToSync>>
Disconnected == \E c \in Calls : CloseDisconnected(c) /\ UNCHANGED <<received, schema, changesToSync>>
DisconnectFailed == \E c \in Calls : CloseDisconnectFailed(c) /\ UNCHANGED <<received, schema, changesToSync>>

SyncNext ==
    \/ Open
    \/ Resume
    \/ Connected
    \/ ConnectFailed
    \/ Close
    \/ Disconnected
    \/ DisconnectFailed

SpecSync == DocInit /\ [][SyncNext]_vars

\* ------------------------------------------------ SyncClient._handleSync
\* received is the list of "room.sync" messages in the order the protocol
\* handed them to _handleSync. pc: "awaitConnecting" (line 93), "applied"
\* (line 102: doc is the document changed, at the position of the message
\* among the applied ones), "rejected" (line 110, or the awaited marker
\* rejected).
Sync(pc, path, waitOn, doc, at) ==
    [pc |-> pc, path |-> path, waitOn |-> waitOn, doc |-> doc, at |-> at]

Applied == {i \in DOMAIN received : received[i].pc = "applied"}

\* _handleSync from line 96 on
SyncBody(path, waitOn) ==
    IF IsConnected(path)
    THEN Sync("applied", path, waitOn, connected[path].ref, Cardinality(Applied) + 1)
    ELSE Sync("rejected", path, waitOn, 0, 0)

\* the handlers whose awaited marker has settled and that have not run on
Resumable ==
    {i \in DOMAIN received : /\ received[i].pc = "awaitConnecting"
                             /\ completer[received[i].waitOn] \in {"resolved", "rejected"}}

\* A "room.sync" message for path arrives. The channel hands each packet to
\* the protocol in a task of its own and the protocol calls the handler
\* synchronously, so the continuations queued by earlier tasks have run.
HandleSync(path) ==
    /\ Len(received) < MaxSyncs
    /\ Resumable = {}
    /\ received' = Append(received,
                          IF connecting[path] # 0
                          THEN Sync("awaitConnecting", path, connecting[path], 0, 0)
                          ELSE SyncBody(path, 0))
    /\ UNCHANGED <<calls, started, connecting, completer, connected, registered, sent, schema,
                   changesToSync, docVars>>

\* the marker a handler awaited has settled; the handlers that await one
\* marker continue in the order they began to wait
HandleSyncResume(i) ==
    /\ i \in Resumable
    /\ \A j \in Resumable : received[j].waitOn = received[i].waitOn => i <= j
    /\ received' = [received EXCEPT ![i] =
                        IF completer[received[i].waitOn] = "rejected"
                        THEN Sync("rejected", received[i].path, received[i].waitOn, 0, 0)
                        ELSE SyncBody(received[i].path, received[i].waitOn)]
    /\ UNCHANGED <<calls, started, connecting, completer, connected, registered, sent, schema,
                   changesToSync, docVars>>

ReceiveSync == \E path \in Paths : HandleSync(path)
ResumeSync == \E i \in DOMAIN received : HandleSyncResume(i)

SyncMessagesNext ==
    \/ SyncNext
    \/ ReceiveSync
    \/ ResumeSync

SpecSyncMessages == DocInit /\ [][SyncMessagesNext]_vars

\* ------------------------------------------------------ text observations
\* the attributes carried by each character, in text order
RECURSIVE CharAttributes(_)
CharAttributes(delta) ==
    IF delta = << >> THEN << >>
    ELSE [j \in 1..Len(Head(delta).insert) |-> Head(delta).attributes]
         \o CharAttributes(Tail(delta))

NonEmptyRuns(delta) == SelectSeq(delta, LAMBDA run : run.insert # << >>)

Clamp(k, len) == Max(0, Min(k, len))

\* the run list with the characters at [pos, pos + n) cut out of each run
RECURSIVE CutRuns(_, _, _, _)
CutRuns(delta, off, pos, n) ==
    IF delta = << >> THEN << >>
    ELSE LET str == Head(delta).insert
             kept == SubSeq(str, 1, Clamp(pos - off, Len(str)))
                     \o SubSeq(str, Clamp(pos + n - off, Len(str)) + 1, Len(str))
         IN <<[Head(delta) EXCEPT !.insert = kept]>>
            \o CutRuns(Tail(delta), off + Len(str), pos, n)

IsInsertOp(op) == Has(op.insert)
IsDeleteOp(op) == ~Has(op.insert) /\ Has(op.delete)
IsFormatOp(op) == ~Has(op.insert) /\ ~Has(op.delete) /\ Has(op.attributes)
IsRetainOp(op) == ~Has(op.insert) /\ ~Has(op.delete) /\ ~Has(op.attributes) /\ Has(op.retain)

\* the ops of the last message that were executed
TextSteps == IF hist.op = "receiveChanges" THEN 1..(Len(hist.trace) - 1) ELSE {}
OpAt(k) == hist.msg.text[k]
Before(k) == hist.trace[k]
After(k) == hist.trace[k + 1]

\* op k is reached by plain retains only, so the cursor is where they put it
AfterRetainsOnly(k) == \A j \in 1..(k - 1) : IsRetainOp(OpAt(j))

\* [pos, pos + n) lies within the text before op k
InRange(k, n) == Before(k).retainInner + n <= Len(TextOf(Before(k).delta))

\* C2: a format op never changes the text: the concatenation of the run
\* insert strings is the same after the op as before it, for every run
\* list and every in-range window at a cursor reached by retains, also a
\* window that ends inside a run that is not the last
C2_FormatKeepsText ==
    \A k \in TextSteps :
        (IsFormatOp(OpAt(k)) /\ AfterRetainsOnly(k) /\ InRange(k, Val(OpAt(k).retain)))
        => /\ After(k).err = "none"
           /\ TextOf(After(k).delta) = TextOf(Before(k).delta)

\* C3: a format op at a cursor reached by retains gives exactly the
\* characters of [pos, pos + n) their previous attributes overridden by the
\* op's attributes and leaves the attributes of every other character as
\* they were
C3_FormatWindow ==
    \A k \in TextSteps :
        (IsFormatOp(OpAt(k)) /\ AfterRetainsOnly(k) /\ InRange(k, Val(OpAt(k).retain)))
        => LET old == CharAttributes(Before(k).delta)
               new == CharAttributes(After(k).delta)
               pos == Before(k).retainInner
           IN /\ After(k).err = "none"
              /\ Len(new) = Len(old)
              /\ \A j \in 1..Len(old) :
                    new[j] = IF j > pos /\ j <= pos + Val(OpAt(k).retain)
                             THEN ObjAssign(old[j], Val(OpAt(k).attributes))
                             ELSE old[j]

\* C4: a delete(n) op at cursor pos with pos + n within the text removes
\* exactly the characters at [pos, pos + n): the text is text[0..pos) followed
\* by text[pos+n..], covered runs are gone, and every remaining character
\* keeps its run and its attributes
C4_DeleteRemovesRange ==
    \A k \in TextSteps :
        (IsDeleteOp(OpAt(k)) /\ InRange(k, Val(OpAt(k).delete)))
        => LET old == TextOf(Before(k).delta)
               pos == Before(k).retainInner
               n == Val(OpAt(k).delete)
           IN /\ After(k).err = "none"
              /\ TextOf(After(k).delta) = SubSeq(old, 1, pos) \o SubSeq(old, pos + n + 1, Len(old))
              /\ NonEmptyRuns(After(k).delta) = NonEmptyRuns(CutRuns(Before(k).delta, 0, pos, n))

\* C5: an insert(str) op at cursor pos yields text[0..pos) + str +
\* text[pos..], for every run list and every pos within the text, whatever
\* ops precede it in the same op list
C5_InsertAtCursor ==
    \A k \in TextSteps :
        (IsInsertOp(OpAt(k)) /\ InRange(k, 0))
        => LET old == TextOf(Before(k).delta)
               pos == Before(k).retainInner
           IN /\ After(k).err = "none"
              /\ TextOf(After(k).delta) =
                    SubSeq(old, 1, pos) \o Val(OpAt(k).insert) \o SubSeq(old, pos + 1, Len(old))

\* the same, for an insert reached by retains only
InsertAfterRetainsOnly ==
    \A k \in TextSteps :
        (IsInsertOp(OpAt(k)) /\ InRange(k, 0) /\ AfterRetainsOnly(k))
        => LET old == TextOf(Before(k).delta)
               pos == Before(k).retainInner
           IN TextOf(After(k).delta) =
                    SubSeq(old, 1, pos) \o Val(OpAt(k).insert) \o SubSeq(old, pos + 1, Len(old))

\* ------------------------------------------------------ tree observations
\* C1: no Local Mutation Gateway call mutates the tree: while sendChanges
\* only forwards the intent, every node's attributes, children and runs are
\* the same after a gateway call as before it, and the tree changes only
\* when receiveChanges applies a message
C1_GatewayLeavesTree ==
    [][/\ hist'.op \in GatewayOps => nodes' = nodes
       /\ nodes' # nodes => hist'.op = "receiveChanges"]_vars

\* a gateway call on a non-empty tree has handed its intent to sendChanges
C1_Witness ==
    /\ hist.op = "Element.setAttribute"
    /\ Len(hist.sent) = 1
    /\ hist.sent[1].nodeID = "x"
    /\ Cardinality(DOMAIN nodes) > 2

\* the element op list of the last message is [{retain:k},{insert:[...]}]
IsRetainInsert(ops) ==
    /\ Len(ops) = 2
    /\ Has(ops[1].retain) /\ ~Has(ops[1].insert) /\ ~Has(ops[1].delete)
    /\ Has(ops[2].insert) /\ ~Has(ops[2].retain) /\ ~Has(ops[2].delete)

\* the element op list of the last message is [{retain:k},{delete:n}]
IsRetainDelete(ops, n) ==
    /\ Len(ops) = 2
    /\ Has(ops[1].retain) /\ ~Has(ops[1].insert) /\ ~Has(ops[1].delete)
    /\ ops[2] = DeleteElementOp(n)

ElementsOnly(msg) == msg.text = << >> /\ ~Has(msg.attributes)

\* every node spec of the list, nested specs included, can be created
RECURSIVE Creatable(_)
Creatable(specs) ==
    \A j \in 1..Len(specs) :
        \/ specs[j].kind = "text"
        \/ /\ specs[j].kind = "element"
           /\ specs[j].tagName \in SchemaTags
           /\ Creatable(specs[j].children)

\* the last call applied [{retain:k},{insert:[X1..Xm]}] to a target with at
\* least k children
RetainInsertApplied(h) ==
    /\ h.op = "receiveChanges"
    /\ h.target # NullRef
    /\ ElementsOnly(h.msg)
    /\ IsRetainInsert(h.msg.elements)
    /\ Creatable(Val(h.msg.elements[2].insert))
    /\ Val(h.msg.elements[1].retain) <= Len(h.prev[h.target].children)

\* C6: [{retain:k},{insert:[X1..Xm]}] on a target with L >= k children
\* yields old[0..k), then X1..Xm in message order, then old[k..L): every
\* inserted node moves the cursor by one, whatever it carries below it
C6_InsertAtRetain ==
    RetainInsertApplied(hist)
    => LET old == hist.prev[hist.target].children
           new == hist.raw[hist.target].children
           k == Val(hist.msg.elements[1].retain)
           XS == Val(hist.msg.elements[2].insert)
       IN /\ hist.err = "none"
          /\ Len(new) = Len(old) + Len(XS)
          /\ SubSeq(new, 1, k) = SubSeq(old, 1, k)
          /\ SubSeq(new, k + Len(XS) + 1, Len(new)) = SubSeq(old, k + 1, Len(old))
          /\ \A j \in 1..Len(XS) :
                /\ new[k + j] \notin DOMAIN hist.prev
                /\ Subtree(hist.raw, new[k + j]) = XS[j]
          /\ nodes = Collect(hist.raw)

\* two nodes, the first with a child of its own, inserted between children
C6_Witness ==
    /\ RetainInsertApplied(hist)
    /\ Val(hist.msg.elements[1].retain) = 1
    /\ Len(hist.prev[hist.target].children) = 1
    /\ Val(hist.msg.elements[2].insert) = <<Branch("x", "y"), Leaf("y")>>
    /\ Len(nodes[hist.targetAfter].children) = 3

\* C7: [{retain:k},{insert:[X]}] followed, as the next message, by
\* [{retain:k},{delete:1}] on the same target restores the target's
\* children to their original sequence, for every k within the list
C7_InsertThenDeleteRestores ==
    [][(/\ RetainInsertApplied(hist)
        /\ hist.err = "none"
        /\ Len(Val(hist.msg.elements[2].insert)) = 1
        /\ hist'.op = "receiveChanges"
        /\ ElementsOnly(hist'.msg)
        /\ IsRetainDelete(hist'.msg.elements, 1)
        /\ hist'.msg.elements[1] = hist.msg.elements[1]
        /\ hist'.target = hist.targetAfter)
       => /\ hist'.err = "none"
          /\ Subtrees(hist'.raw, hist'.raw[hist'.target].children)
                = Subtrees(hist.prev, hist.prev[hist.target].children)
          /\ Subtrees(nodes', nodes'[hist'.targetAfter].children)
                = Subtrees(hist.prev, hist.prev[hist.target].children)]_vars

\* a delete at k = 1 has just removed the node that sat behind one sibling
\* and in front of another
C7_Witness ==
    /\ hist.op = "receiveChanges"
    /\ hist.err = "none"
    /\ hist.target # NullRef
    /\ IsRetainDelete(hist.msg.elements, 1)
    /\ Val(hist.msg.elements[1].retain) = 1
    /\ Len(hist.prev[hist.target].children) = 3
    /\ Subtree(hist.prev, hist.prev[hist.target].children[2]) = Leaf("x")
    /\ Len(nodes[hist.targetAfter].children) = 2

\* ------------------------------------------------- open / close checks
OpensOn(path) == {c \in Calls : calls[c].op = "open" /\ calls[c].path = path}
ClosesOn(path) == {c \in Calls : calls[c].op = "close" /\ calls[c].path = path}
ResolvedOpens(path) == {c \in OpensOn(path) : calls[c].pc = "resolved"}

\* the opens that returned document doc, and the closes that released it
OpensOf(doc) == {c \in Calls : calls[c].op = "open" /\ calls[c].pc = "resolved"
                                /\ calls[c].doc = doc}
ClosesOf(doc) == {c \in Calls : calls[c].op = "close" /\ calls[c].doc = doc}

\* only opens were issued on the path and no connect request failed
OnlyOpens(path) ==
    /\ OpensOn(path) # {}
    /\ ClosesOn(path) = {}
    /\ \A c \in OpensOn(path) : completer[c] # "rejected"

ClosesConnected(c, path) ==
    /\ calls[c].pc = "new"
    /\ calls'[c].op = "close"
    /\ calls'[c].path = path
    /\ IsConnected(path)

\* C9: after k opens returned the document of a path, each of the first k-1
\* closes sends no room.disconnect and leaves the document connected; the k-th
\* close sends exactly one room.disconnect and removes the document from the
\* connected documents, and the response to it unregisters the document
C9_TeardownOnLastClose ==
    [][/\ \A c \in Calls, path \in Paths :
              ClosesConnected(c, path) =>
                  IF Cardinality(ClosesOf(connected[path].ref)) + 1
                         < Cardinality(OpensOf(connected[path].ref))
                  THEN /\ sent' = sent
                       /\ connected'[path].ref = connected[path].ref
                       /\ calls'[c].pc = "resolved"
                  ELSE /\ Cardinality(ClosesOf(connected[path].ref)) + 1
                              = Cardinality(OpensOf(connected[path].ref))
                       /\ sent' = [sent EXCEPT ![path].disconnect = @ + 1]
                       /\ ~IsConnected(path)'
                       /\ calls'[c].pc = "awaitDisconnect"
       /\ \A c \in Calls :
              (calls[c].pc = "awaitDisconnect" /\ calls'[c].pc = "resolved")
                  => calls[c].doc \notin registered']_vars

\* two opens returned a document, the first close kept it, the second tore it down
C9_Witness ==
    \E path \in Paths, doc \in Calls :
        /\ Cardinality(OpensOf(doc)) = 2
        /\ Cardinality(ClosesOf(doc)) = 2
        /\ \A c \in ClosesOf(doc) : calls[c].pc = "resolved" /\ calls[c].path = path
        /\ sent[path].disconnect = 1
        /\ ~IsConnected(path)
        /\ doc \notin registered

\* C10: open(path) called on a connected path sends no room.connect request,
\* increments the path's reference count by exactly one and returns the
\* existing document
C10_OpenConnectedShares ==
    [][\A c \in Calls, path \in Paths :
           (/\ calls[c].pc = "new"
            /\ calls'[c].op = "open"
            /\ calls'[c].path = path
            /\ IsConnected(path))
               => /\ sent' = sent
                  /\ connected' = [connected EXCEPT ![path].count = @ + 1]
                  /\ calls'[c].pc = "resolved"
                  /\ calls'[c].doc = connected[path].ref]_vars

\* an open that found its path connected and returned another call's document
C10_Witness ==
    \E c \in Calls :
        /\ calls[c].op = "open"
        /\ calls[c].pc = "resolved"
        /\ calls[c].waitOn = 0
        /\ calls[c].doc # c
        /\ connected[calls[c].path].ref = calls[c].doc
        /\ connected[calls[c].path].count >= 2

\* the documents of a path that are constructed and not yet unregistered
LiveDocuments(path) == {doc \in registered : calls[doc].path = path}

\* C11: at every point of every interleaving of open and close calls there
\* is at most one live document per path, also when open(path) is called
\* while a close(path) still awaits its disconnect response
C11_OneLiveDocumentPerPath ==
    \A path \in Paths : Cardinality(LiveDocuments(path)) <= 1

\* ------------------------------------------- message application checks
\* the last call was receiveChanges
Received == hist.op = "receiveChanges"

\* some element of the heap carries the id
IdInTree(heap, id) ==
    \E n \in DOMAIN heap : heap[n].kind = "element" /\ "$id" \in DOMAIN heap[n].attributes
                           /\ heap[n].attributes["$id"] = id

\* the call left the tree, the events and the subscribers untouched
NothingHappened ==
    /\ hist.raw = hist.prev
    /\ nodes = hist.prev
    /\ hist.nodeEvents = 0
    /\ hist.docEvents = 0
    /\ hist.notified = << >>
    /\ subscribers = hist.subscribed

\* C12: receiveChanges with a message that is not root-targeted and whose
\* target id is the $id of no element of the tree raises target-not-found
\* and changes nothing: no children, runs or attributes change, no "updated"
\* event is emitted and no subscriber is called
C12_TargetNotFound ==
    (Received /\ ~hist.msg.root /\ hist.msg.target # Undefined
              /\ ~IdInTree(hist.prev, hist.msg.target))
        => hist.err = "Target node not found" /\ NothingHappened

\* an unknown target in a message with element, text and attribute ops, on a
\* tree with children and with subscribers registered
C12_Witness ==
    /\ Received /\ ~hist.msg.root /\ ~IdInTree(hist.prev, hist.msg.target)
    /\ hist.msg.elements # << >> /\ hist.msg.text # << >> /\ Has(hist.msg.attributes)
    /\ Len(hist.prev[RootRef].children) >= 2
    /\ Len(hist.subscribed) >= 2
    /\ hist.err = "Target node not found"

\* the element ops of the last message apply to its target without error
ElementOpsApply ==
    ElementOps([heap |-> hist.prev, retain |-> 0, err |-> "none"], hist.target,
               hist.msg.elements).err = "none"

\* the text ops of the last message met a target that is not a "text" element
TextOpsOnOtherTag ==
    /\ Received
    /\ hist.msg.text # << >>
    /\ hist.target # NullRef
    /\ hist.prev[hist.target].tagName # "text"
    /\ ElementOpsApply

\* C13: receiveChanges with a non-empty text op-stream whose target element's
\* tag is not "text" raises the not-a-text-node error and applies none of the
\* text ops: no text op is processed and every run list is as it was
C13_NotATextNode ==
    TextOpsOnOtherTag
        => /\ hist.err = "Node is not a text node"
           /\ hist.trace = << >>
           /\ \A n \in DOMAIN hist.prev :
                  hist.prev[n].kind = "text"
                      => n \in DOMAIN hist.raw /\ hist.raw[n].delta = hist.prev[n].delta

\* a text op sent to a "child" element while the tree holds a text node
C13_Witness ==
    /\ TextOpsOnOtherTag
    /\ hist.prev[hist.target].tagName = "child"
    /\ \E n \in DOMAIN hist.prev : hist.prev[n].kind = "text"
    /\ hist.err = "Node is not a text node"

\* the last message was applied and carried attribute ops
AttributesReceived == Received /\ hist.err = "none" /\ Has(hist.msg.attributes)

SetNames(setList) == {setList[k].name : k \in 1..Len(setList)}
DeleteNames(delList) == {delList[k] : k \in 1..Len(delList)}

\* C14: after receiveChanges every name of the delete list is absent from
\* the target's attribute map, every name of the set list that is not also
\* deleted maps to the value of its last set entry (sets are applied in
\* order, before the deletes), every other name is as it was, and the target
\* emitted one "updated" event per set entry and per delete entry
C14_AttributeOps ==
    AttributesReceived =>
        LET attr == Val(hist.msg.attributes)
            before == hist.prev[hist.target].attributes
            after == hist.raw[hist.target].attributes
        IN /\ \A name \in DeleteNames(attr.delete) : name \notin DOMAIN after
           /\ \A k \in 1..Len(attr.set) :
                  (/\ attr.set[k].name \notin DeleteNames(attr.delete)
                   /\ \A j \in (k + 1)..Len(attr.set) : attr.set[j].name # attr.set[k].name)
                      => /\ attr.set[k].name \in DOMAIN after
                         /\ after[attr.set[k].name] = attr.set[k].value
           /\ \A name \in (DOMAIN before \cup DOMAIN after)
                              \ (SetNames(attr.set) \cup DeleteNames(attr.delete)) :
                  name \in DOMAIN before /\ name \in DOMAIN after
                      /\ after[name] = before[name]
           /\ hist.nodeEvents = Len(attr.set) + Len(attr.delete)

\* a message that sets a name it also deletes, deletes an absent name and
\* leaves a third attribute alone
C14_Witness ==
    /\ AttributesReceived
    /\ \E name \in SetNames(Val(hist.msg.attributes).set) :
           name \in DeleteNames(Val(hist.msg.attributes).delete)
    /\ \E name \in DeleteNames(Val(hist.msg.attributes).delete) :
           name \notin DOMAIN hist.prev[hist.target].attributes
    /\ "hi" \in DOMAIN hist.raw[hist.target].attributes
    /\ hist.nodeEvents = 3

\* how often subscriber s was called for the last message
RECURSIVE TimesCalled(_, _)
TimesCalled(called, s) ==
    IF called = << >> THEN 0
    ELSE (IF Head(called) = s THEN 1 ELSE 0) + TimesCalled(Tail(called), s)

InArray(subs, s) == \E k \in 1..Len(subs) : subs[k] = s

\* C15: every message that receiveChanges applies without error produces
\* exactly one document-level "updated" event and exactly one call to each
\* subscriber that was registered before the message and is not unsubscribed,
\* and no call to anyone who was not registered
C15_OneNotificationPerMessage ==
    (Received /\ hist.err = "none") =>
        /\ hist.docEvents = 1
        /\ \A s \in Callbacks :
               /\ (InArray(hist.subscribed, s) /\ InArray(subscribers, s))
                      => TimesCalled(hist.notified, s) = 1
               /\ ~InArray(hist.subscribed, s) => TimesCalled(hist.notified, s) = 0

\* the elements of the heap that carry the id
Carriers(heap, id) ==
    {n \in DOMAIN heap : heap[n].kind = "element" /\ "$id" \in DOMAIN heap[n].attributes
                         /\ heap[n].attributes["$id"] = id}

\* the j-th node spec of the applied insert is an element with an $id
InsertedElement(j) ==
    /\ RetainInsertApplied(hist)
    /\ hist.err = "none"
    /\ j \in 1..Len(Val(hist.msg.elements[2].insert))
    /\ Val(hist.msg.elements[2].insert)[j].kind = "element"
    /\ "$id" \in DOMAIN Val(hist.msg.elements[2].insert)[j].attributes

\* the node created for the j-th spec, and the id and attributes it was given
InsertedNode(j) == hist.raw[hist.target].children[Val(hist.msg.elements[1].retain) + j]
InsertedAttributes(j) == Val(hist.msg.elements[2].insert)[j].attributes

\* getNodeByID finds the j-th inserted element and getAttribute gives its values
InsertedResolves(j) ==
    /\ GetNodeByID(hist.raw, RootRef, InsertedAttributes(j)["$id"]) = InsertedNode(j)
    /\ \A name \in DOMAIN InsertedAttributes(j) :
           ObjGet(hist.raw[InsertedNode(j)].attributes, name) = InsertedAttributes(j)[name]
    /\ Len(hist.raw[hist.target].children)
           = Len(hist.prev[hist.target].children) + Len(Val(hist.msg.elements[2].insert))

\* C16 as stated: after receiveChanges applies an insert of an element
\* carrying $id x and attributes A under a target, root.getNodeByID(x) returns
\* that element, getAttribute(name) returns A[name] for every name of A, and
\* the target has as many more children as nodes were inserted
C16_InsertedElementResolves ==
    \A j \in 1..MaxNodes : InsertedElement(j) => InsertedResolves(j)

\* C16: the same, for an inserted element whose $id no other element of the
\* tree carries
C16_InsertedFreshIdResolves ==
    \A j \in 1..MaxNodes :
        (InsertedElement(j) /\ Carriers(hist.raw, InsertedAttributes(j)["$id"]) = {InsertedNode(j)})
            => InsertedResolves(j)

\* an element with a fresh id and an attribute inserted under a nested target
C16_Witness ==
    /\ InsertedElement(1)
    /\ Carriers(hist.raw, InsertedAttributes(1)["$id"]) = {InsertedNode(1)}
    /\ hist.target # RootRef
    /\ "hello" \in DOMAIN InsertedAttributes(1)
    /\ InsertedResolves(1)


\* ------------------------------------------------ sync message order
SamePath(i, j) == received[i].path = received[j].path

\* C17: sync messages received for one path are applied in the order
\* received: when a message has been applied, no message received earlier
\* for the same path is still waiting for the path's connect, and those
\* that were applied were applied before it.
C17_AppliedInOrderReceived ==
    \A i, j \in DOMAIN received :
        i < j /\ SamePath(i, j) /\ received[j].pc = "applied"
            => /\ received[i].pc # "awaitConnecting"
               /\ received[i].pc = "applied" => received[i].at < received[j].at


\* ------------------------------------------------------- stable identity
ElementsIn(heap) == {n \in DOMAIN heap : heap[n].kind = "element"}

HasId(heap, n) == "$id" \in DOMAIN heap[n].attributes

EveryElementHasId == \A n \in ElementsIn(nodes) : HasId(nodes, n)

\* the elements that had an $id before the last message have the same $id
\* after it
IdsKept ==
    Received =>
        \A n \in ElementsIn(hist.prev) \cap DOMAIN hist.raw :
            HasId(hist.prev, n)
                => /\ HasId(hist.raw, n)
                   /\ hist.raw[n].attributes["$id"] = hist.prev[n].attributes["$id"]

\* C18: every Element of the tree has a "$id" attribute, and no applied
\* change message, attribute set/delete ops included, changes or removes
\* the "$id" of an element.
C18_IdAssignedOnceAndKept == EveryElementHasId /\ IdsKept


\* ------------------------------------------------ validation of new children
CreateOps ==
    {"Element.createChildElement", "Element.createChildElementAt",
     "Element.createChildElementAfter"}

Created == hist.op \in CreateOps

\* tagName is among the tags the ChildProperty of the target allows
TagAllowedUnder(heap, n, tagName) ==
    /\ ChildPropertyName(heap[n].tagName) # Undefined
    /\ tagName \in ChildTagNames(heap[n].tagName)

\* every supplied attribute key is a property of the element type of tagName
KeysDeclared(tagName, attributes) ==
    tagName \in SchemaTags /\ \A k \in DOMAIN attributes : k \in PropertyNames(tagName)

\* the last call threw and handed nothing to sendChanges
FailedUnsent == hist.err # "none" /\ hist.sent = << >>

\* C19: createChildElement, createChildElementAt and createChildElementAfter
\* called with a tag the target's ChildProperty does not allow (or on a
\* target without a ChildProperty) or with an attribute key that is not a
\* property of the child's element type throw, and no intent is sent.
C19_InvalidChildFailsUnsent ==
    (Created /\ (\/ ~TagAllowedUnder(hist.prev, hist.target, hist.msg.tagName)
                 \/ ~KeysDeclared(hist.msg.tagName, hist.msg.attributes)))
        => FailedUnsent

\* an allowed tag with an undeclared attribute key, after the sibling test
\* of createChildElementAfter would have passed
C19_Witness ==
    /\ hist.op = "Element.createChildElementAfter"
    /\ TagAllowedUnder(hist.prev, hist.target, hist.msg.tagName)
    /\ ~KeysDeclared(hist.msg.tagName, hist.msg.attributes)
    /\ hist.prev[hist.msg.sibling].parent = hist.target
    /\ FailedUnsent

\* a create call on an element whose type has no ChildProperty
C19_WitnessNoChildProperty ==
    /\ Created
    /\ ChildPropertyName(hist.prev[hist.target].tagName) = Undefined
    /\ FailedUnsent

\* a create call with a tag the ChildProperty of the target does not allow
C19_WitnessTagNotAllowed ==
    /\ hist.op = "Element.createChildElementAt"
    /\ ChildPropertyName(hist.prev[hist.target].tagName) # Undefined
    /\ hist.msg.tagName \in SchemaTags
    /\ ~TagAllowedUnder(hist.prev, hist.target, hist.msg.tagName)
    /\ FailedUnsent

\* the id of the parent of node m, undefined when it has none
ParentIdIn(heap, m) ==
    IF heap[m].parent = NullRef THEN Undefined ELSE NodeId(heap, heap[m].parent)

\* C20: createChildElementAfter throws and sends no intent whenever the id of
\* the sibling's parent is not the id of the target element.
C20_ForeignSiblingFailsUnsent ==
    (hist.op = "Element.createChildElementAfter"
        /\ ParentIdIn(hist.prev, hist.msg.sibling) # NodeId(hist.prev, hist.target))
        => FailedUnsent

\* a valid child after a sibling that lies under another element
C20_Witness ==
    /\ hist.op = "Element.createChildElementAfter"
    /\ TagAllowedUnder(hist.prev, hist.target, hist.msg.tagName)
    /\ KeysDeclared(hist.msg.tagName, hist.msg.attributes)
    /\ ParentIdIn(hist.prev, hist.msg.sibling) # NodeId(hist.prev, hist.target)
    /\ hist.prev[hist.msg.sibling].parent # NullRef
    /\ hist.err = "Element does not belong to this node"
    /\ hist.sent = << >>


\* ------------------------------------------------------ schema observations
DeclaredTags(elements) == {elements[i].tagName : i \in DOMAIN elements}

\* C21: element(tag) returns the element type with that tagName if and only
\* if tag was declared in the schema's elements, and raises for every
\* undeclared tag.
C21_ElementIffDeclared ==
    schema.op = "element"
        => IF schema.name \in DeclaredTags(schema.elements)
           THEN schema.err = "none" /\ schema.el.tagName = schema.name
           ELSE schema.err # "none"

\* the same for the tags that are not names of Object.prototype
ElementIffDeclaredOwnNames ==
    (schema.op = "element" /\ schema.name \notin ObjectPrototypeNames)
        => IF schema.name \in DeclaredTags(schema.elements)
           THEN schema.err = "none" /\ schema.el.tagName = schema.name
           ELSE schema.err # "none"

NoTagTwice(elements) ==
    \A i, j \in DOMAIN elements : i # j => elements[i].tagName # elements[j].tagName

ChildTagsOfProperty(p) == {p.childTagNames[k] : k \in DOMAIN p.childTagNames}

ChildTagsOfElement(e) == UNION {ChildTagsOfProperty(e.properties[j]) : j \in DOMAIN e.properties}

ChildTagsOf(elements) == UNION {ChildTagsOfElement(elements[i]) : i \in DOMAIN elements}

WellFormed(rootTagName, elements) ==
    /\ NoTagTwice(elements)
    /\ rootTagName \in DeclaredTags(elements)
    /\ ChildTagsOf(elements) \subseteq DeclaredTags(elements)

\* C22: constructing a MeshSchema succeeds if and only if no tagName is
\* declared twice, the root tag is declared and every tag named by a
\* ChildProperty is declared; otherwise the constructor raises.
C22_ConstructIffWellFormed ==
    schema.op = "new"
        => (schema.err = "none" <=> WellFormed(schema.rootTagName, schema.elements))

\* the same for schemas in which no tag, declared or referred to, is a name
\* of Object.prototype
ConstructIffWellFormedOwnNames ==
    (schema.op = "new"
        /\ (DeclaredTags(schema.elements) \cup ChildTagsOf(schema.elements)
              \cup {schema.rootTagName}) \cap ObjectPrototypeNames = {})
        => (schema.err = "none" <=> WellFormed(schema.rootTagName, schema.elements))

\* what C23 compares of a property
PropertyFacts(p) ==
    IF p.kind = "child"
    THEN [kind |-> "child", name |-> p.name,
          tags |-> {p.childTagNames[k] : k \in DOMAIN p.childTagNames}, ordered |-> p.ordered]
    ELSE [kind |-> "value", name |-> p.name, type |-> p.type, enumValues |-> p.enumValues,
          required |-> p.required]

ElementFacts(e) ==
    [tagName |-> e.tagName, properties |-> {PropertyFacts(e.properties[j]) : j \in DOMAIN e.properties}]

RoundTripped == schema.op = "roundTrip"

SameSchema ==
    /\ schema.back.err = "none"
    /\ schema.back.rootTagName = schema.rootTagName
    /\ {ElementFacts(schema.back.elements[i]) : i \in DOMAIN schema.back.elements}
          = {ElementFacts(schema.elements[i]) : i \in DOMAIN schema.elements}

\* C23: for every valid schema s, MeshSchema.fromJson(s.toJson()) has the
\* same root tag, the same tags and for each tag the same properties (name,
\* value type, enum values, required flag) and the same child constraint.
C23_RoundTrip == RoundTripped => SameSchema

\* some value property has enum values and is not required
OptionalEnum(elements) ==
    \E i \in DOMAIN elements :
        \E j \in DOMAIN elements[i].properties :
            /\ elements[i].properties[j].kind = "value"
            /\ Has(elements[i].properties[j].enumValues)
            /\ ~elements[i].properties[j].required

\* the same for the schemas without such a property
RoundTripWithoutOptionalEnum ==
    (RoundTripped /\ ~OptionalEnum(schema.elements)) => SameSchema

\* ------------------------------------------------------ cursor observations
\* the total length of the runs strictly before run index i
RunsLengthBefore(delta, i) == Len(TextOf(SubSeq(delta, 1, Min(i, Len(delta)))))

\* offset is the length of the runs before run i, and the position
\* retainInner lies within run i or run i is past the last run
CursorsAgree(st) ==
    /\ st.i >= 0
    /\ st.offset = RunsLengthBefore(st.delta, st.i)
    /\ st.offset <= st.retainInner
    /\ st.i < Len(st.delta) => st.retainInner <= st.offset + Len(st.delta[st.i + 1].insert)

\* the characters op k covers, counted from the position before it
OpLength(op) ==
    IF IsInsertOp(op) THEN 0
    ELSE IF IsDeleteOp(op) THEN Val(op.delete)
    ELSE IF Has(op.retain) THEN Val(op.retain) ELSE 0

\* the boundaries of the last op-stream: 1 is before the first op
TextBoundaries == IF hist.op = "receiveChanges" THEN 1..Len(hist.trace) ELSE {}

\* every op before boundary k was in range when it ran
InRangeBefore(k) == \A j \in 1..(k - 1) : InRange(j, OpLength(OpAt(j)))

\* C24: at every op boundary of a text op-stream the offset is the total
\* length of the runs strictly before run index i, and offset <= pos <=
\* offset + length of run i (or i is past the last run), for every run list
\* and every in-range sequence of insert, delete, format and retain ops
C24_CursorsAgree ==
    \A k \in TextBoundaries : InRangeBefore(k) => CursorsAgree(hist.trace[k])

\* the same at the boundaries reached by plain retains only
CursorsAgreeAfterRetainsOnly ==
    \A k \in TextBoundaries :
        (InRangeBefore(k) /\ AfterRetainsOnly(k)) => CursorsAgree(hist.trace[k])

\* --------------------------------------------------------- insert and retain
\* new is old with the string ins spliced in at some place
SplicedIn(old, ins, new) ==
    \E p \in 0..Len(old) : new = SubSeq(old, 1, p) \o ins \o SubSeq(old, p + 1, Len(old))

\* the run list after is the run list before with ins spliced into run i
\* (counted from 0): no run more or less, no attributes changed
SplicedIntoRun(before, after, i, ins) ==
    /\ Len(after) = Len(before)
    /\ \A j \in 1..Len(before) :
          /\ after[j].attributes = before[j].attributes
          /\ IF j = i + 1 THEN SplicedIn(before[j].insert, ins, after[j].insert)
             ELSE after[j].insert = before[j].insert

\* the attributes an appended run carries: the op's, or {} when none are given
AppendedAttributes(op) == IF Has(op.attributes) THEN Val(op.attributes) ELSE EmptyObj

\* C25: a text insert whose cursor is not past the last run splices the
\* string into the current run and changes neither the number of runs nor
\* any run's attributes (the op's own attributes are not applied); only an
\* insert with the cursor past the last run appends exactly one new run,
\* carrying the op's attributes or {} when none are given
C25_InsertSplicesOrAppends ==
    \A k \in TextSteps :
        IsInsertOp(OpAt(k))
        => /\ After(k).err = "none"
           /\ IF Before(k).i < Len(Before(k).delta)
              THEN SplicedIntoRun(Before(k).delta, After(k).delta, Before(k).i, Val(OpAt(k).insert))
              ELSE After(k).delta = Append(Before(k).delta,
                                           Run(Val(OpAt(k).insert), AppendedAttributes(OpAt(k))))

\* an insert carrying attributes was spliced into a run that has none of them
C25_Witness ==
    \E k \in TextSteps :
        /\ IsInsertOp(OpAt(k)) /\ Has(OpAt(k).attributes)
        /\ Before(k).i < Len(Before(k).delta)
        /\ Before(k).retainInner > 0
        /\ Len(After(k).delta) = Len(Before(k).delta)
        /\ After(k).delta[Before(k).i + 1].attributes = EmptyObj
        /\ Len(After(k).delta[Before(k).i + 1].insert) > Len(Before(k).delta[Before(k).i + 1].insert)

\* an insert with the cursor past the last run appended a run with its attributes
C25_WitnessAppended ==
    \E k \in TextSteps :
        /\ IsInsertOp(OpAt(k)) /\ Has(OpAt(k).attributes)
        /\ Before(k).i = Len(Before(k).delta)
        /\ Before(k).delta # << >>
        /\ Len(After(k).delta) = Len(Before(k).delta) + 1
        /\ After(k).delta[Len(After(k).delta)].attributes = Italic

\* C28: a text retain(n) op without attributes leaves the run list
\* unchanged: no run's string or attributes change and no run is added,
\* removed or split; only the cursors move
C28_RetainKeepsRuns ==
    \A k \in TextSteps :
        IsRetainOp(OpAt(k))
        => /\ After(k).err = "none"
           /\ After(k).delta = Before(k).delta
           /\ After(k).retainInner = Before(k).retainInner + Val(OpAt(k).retain)

\* a retain moved the cursor into the middle of a later run of a run list
\* of several runs
C28_Witness ==
    \E k \in TextSteps :
        /\ IsRetainOp(OpAt(k))
        /\ Len(Before(k).delta) > 1
        /\ After(k).i > Before(k).i
        /\ After(k).retainInner > After(k).offset
        /\ After(k).retainInner < Len(TextOf(After(k).delta))

\* ------------------------------------------------------------ element delete
\* the element op list is [{retain:k},{delete:n},{retain:r?, insert:[X]}]
IsRetainDeleteInsert(ops) ==
    /\ Len(ops) = 3
    /\ Has(ops[1].retain) /\ ~Has(ops[1].insert) /\ ~Has(ops[1].delete)
    /\ Has(ops[2].delete) /\ ~Has(ops[2].insert) /\ ~Has(ops[2].retain)
    /\ Has(ops[3].insert) /\ ~Has(ops[3].delete)
    /\ Len(Val(ops[3].insert)) = 1

\* the children left when the n children at indices k..k+n-1 are removed
WithoutRange(children, k, n) ==
    SubSeq(children, 1, k) \o SubSeq(children, k + n + 1, Len(children))

\* the last call applied [{retain:k},{delete:n}] with k + n within the children
RetainDeleteApplied(h) ==
    /\ h.op = "receiveChanges"
    /\ h.target # NullRef
    /\ ElementsOnly(h.msg)
    /\ Len(h.msg.elements) = 2
    /\ Has(h.msg.elements[1].retain) /\ ~Has(h.msg.elements[1].insert) /\ ~Has(h.msg.elements[1].delete)
    /\ Has(h.msg.elements[2].delete) /\ ~Has(h.msg.elements[2].insert) /\ ~Has(h.msg.elements[2].retain)
    /\ Val(h.msg.elements[1].retain) + Val(h.msg.elements[2].delete)
          <= Len(h.prev[h.target].children)

\* where the insert that follows the delete lands when the cursor is k - n
\* after the delete: k - n, plus the insert op's own retain
LandsAt(ops) ==
    Val(ops[1].retain) - Val(ops[2].delete) + (IF Has(ops[3].retain) THEN Val(ops[3].retain) ELSE 0)

\* the last call applied such a list, the delete within the children and
\* the insert landing within the children that are left
RetainDeleteInsertApplied(h) ==
    /\ h.op = "receiveChanges"
    /\ h.target # NullRef
    /\ ElementsOnly(h.msg)
    /\ IsRetainDeleteInsert(h.msg.elements)
    /\ Val(h.msg.elements[1].retain) + Val(h.msg.elements[2].delete)
          <= Len(h.prev[h.target].children)
    /\ LandsAt(h.msg.elements) >= 0
    /\ LandsAt(h.msg.elements)
          <= Len(h.prev[h.target].children) - Val(h.msg.elements[2].delete)

\* C26: an element delete:n op at cursor pos removes exactly the n children
\* at indices pos..pos+n-1 and then sets the cursor to pos - n, so the next
\* retain or insert of the same op list is measured from pos - n
C26_DeleteMovesCursorBack ==
    /\ RetainDeleteApplied(hist)
       => /\ hist.err = "none"
          /\ hist.raw[hist.target].children
                = WithoutRange(hist.prev[hist.target].children,
                               Val(hist.msg.elements[1].retain), Val(hist.msg.elements[2].delete))
    /\ RetainDeleteInsertApplied(hist)
       => LET rest == WithoutRange(hist.prev[hist.target].children,
                                   Val(hist.msg.elements[1].retain),
                                   Val(hist.msg.elements[2].delete))
              new == hist.raw[hist.target].children
              c == LandsAt(hist.msg.elements)
          IN /\ hist.err = "none"
             /\ Len(new) = Len(rest) + 1
             /\ SubSeq(new, 1, c) = SubSeq(rest, 1, c)
             /\ new[c + 1] \notin DOMAIN hist.prev
             /\ SubSeq(new, c + 2, Len(new)) = SubSeq(rest, c + 1, Len(rest))

\* [{retain:2},{delete:1},{insert:[X]}] on three children removed the third
\* and put X between the first and the second
C26_Witness ==
    /\ RetainDeleteInsertApplied(hist)
    /\ Val(hist.msg.elements[1].retain) = 2
    /\ Val(hist.msg.elements[2].delete) = 1
    /\ ~Has(hist.msg.elements[3].retain)
    /\ Len(hist.prev[hist.target].children) = 3
    /\ Len(hist.raw[hist.target].children) = 3
    /\ hist.raw[hist.target].children[1] = hist.prev[hist.target].children[1]
    /\ hist.raw[hist.target].children[3] = hist.prev[hist.target].children[2]

\* the cursor went below 0 and the next op's retain counted from there:
\* [{delete:1 at 0},{retain:2, insert:[X]}] put X behind one remaining child
C26_WitnessBelowZero ==
    /\ RetainDeleteInsertApplied(hist)
    /\ Val(hist.msg.elements[1].retain) = 0
    /\ Val(hist.msg.elements[2].delete) = 1
    /\ LandsAt(hist.msg.elements) = 1
    /\ Len(hist.prev[hist.target].children) = 3
    /\ hist.raw[hist.target].children[1] = hist.prev[hist.target].children[2]
    /\ hist.raw[hist.target].children[3] = hist.prev[hist.target].children[3]

\* ------------------------------------------------------ order of the streams
\* the last message reached a target and carried all three op-streams
ThreeStreams ==
    /\ Received
    /\ hist.target # NullRef
    /\ hist.msg.elements # << >>
    /\ hist.msg.text # << >>
    /\ Has(hist.msg.attributes)

\* its element ops are [{retain:0},{insert:[X]}] with X of the given kind
InsertsAtStart(kind) ==
    /\ IsRetainInsert(hist.msg.elements)
    /\ Val(hist.msg.elements[1].retain) = 0
    /\ Len(Val(hist.msg.elements[2].insert)) = 1
    /\ Val(hist.msg.elements[2].insert)[1].kind = kind
    /\ Creatable(Val(hist.msg.elements[2].insert))

\* the target has one child more than before, a new one at index 0
InsertedAtStart ==
    /\ Len(hist.raw[hist.target].children) = Len(hist.prev[hist.target].children) + 1
    /\ hist.raw[hist.target].children[1] \notin DOMAIN hist.prev

\* no attribute op was applied and no node event was emitted
AttributesUntouched ==
    /\ hist.raw[hist.target].attributes = hist.prev[hist.target].attributes
    /\ hist.nodeEvents = 0

\* C27: within one message receiveChanges applies all element ops before any
\* text op and all text ops before any attribute op: the text ops act on the
\* text child the same message inserted (and fail on an element it inserted
\* in front), and the attribute ops and their node events come only when the
\* element ops and the text ops are all done
C27_ElementsThenTextThenAttributes ==
    /\ (ThreeStreams /\ hist.prev[hist.target].tagName = "text" /\ InsertsAtStart("text"))
       => /\ hist.err = "none"
          /\ InsertedAtStart
          /\ hist.trace # << >>
          /\ hist.trace[1].delta = Val(hist.msg.elements[2].insert)[1].delta
          /\ hist.raw[hist.raw[hist.target].children[1]].delta = hist.trace[Len(hist.trace)].delta
          /\ \A n \in DOMAIN hist.prev :
                hist.prev[n].kind = "text" => hist.raw[n].delta = hist.prev[n].delta
          /\ hist.nodeEvents = Len(Val(hist.msg.attributes).set) + Len(Val(hist.msg.attributes).delete)
    /\ (ThreeStreams /\ hist.prev[hist.target].tagName = "text" /\ InsertsAtStart("element"))
       => /\ hist.err = "TypeError"
          /\ InsertedAtStart
          /\ AttributesUntouched
    /\ (ThreeStreams /\ hist.prev[hist.target].tagName # "text" /\ InsertsAtStart("element"))
       => /\ hist.err = "Node is not a text node"
          /\ InsertedAtStart
          /\ AttributesUntouched
    /\ (ThreeStreams /\ hist.err # "none") => AttributesUntouched

\* a message inserted a text child into a text element that already held
\* one, its text op went into the new child and its attribute op was applied
C27_Witness ==
    /\ ThreeStreams
    /\ hist.prev[hist.target].tagName = "text"
    /\ InsertsAtStart("text")
    /\ Len(hist.prev[hist.target].children) = 1
    /\ TextOf(hist.raw[hist.raw[hist.target].children[1]].delta) = <<"x">>
    /\ TextOf(hist.raw[hist.raw[hist.target].children[2]].delta) = << >>
    /\ ObjGet(hist.prev[hist.target].attributes, "hello") # "mod"
    /\ ObjGet(hist.raw[hist.target].attributes, "hello") = "mod"

\* the text ops of a message met the element the same message had inserted
C27_WitnessElementInFront ==
    /\ ThreeStreams
    /\ hist.prev[hist.target].tagName = "text"
    /\ InsertsAtStart("element")
    /\ hist.err = "TypeError"

\* ------------------------------------------------- an open that waited
\* call c goes on in this step after awaiting a connect in flight
Resumes(c) == calls[c].pc = "awaitPending" /\ calls'[c].pc # "awaitPending"

\* open's test of the registry as call c makes it in this step: share the document
\* if the path is connected, otherwise start a connect of its own
Reenters(c) ==
    IF IsConnected(calls[c].path)
    THEN /\ calls'[c].pc = "resolved"
         /\ calls'[c].doc = connected[calls[c].path].ref
         /\ connected'[calls[c].path].count = connected[calls[c].path].count + 1
         /\ sent' = sent
    ELSE /\ calls'[c].pc = "awaitConnect"
         /\ sent'[calls[c].path].connect = sent[calls[c].path].connect + 1
         /\ connecting'[calls[c].path] = c
         /\ connected' = connected

\* call c fails in this step and leaves the client as it was
FailsWithConnect(c) ==
    /\ calls'[c].pc = "rejected"
    /\ sent' = sent
    /\ connected' = connected
    /\ connecting' = connecting

\* C29 as stated: an open(path) call that finds a connect in flight for the
\* path awaits that connect and then re-enters open's state check, sharing
\* the document if the path is now connected, otherwise starting its own
\* connect, whatever the outcome of the connect it waited for
C29_WaitingOpenReenters ==
    [][\A c \in Calls : Resumes(c) => Reenters(c)]_vars

\* C29: an open that waited re-enters the state check when the
\* connect it waited for succeeded, and fails with that connect's error,
\* sending no request, when it failed
C29_WaitingOpenFollowsConnect ==
    [][\A c \in Calls :
          Resumes(c) => IF completer[calls[c].waitOn] = "rejected"
                        THEN FailsWithConnect(c)
                        ELSE completer[calls[c].waitOn] = "resolved" /\ Reenters(c)]_vars

\* an open that waited for a connect that failed has failed, and another
\* that waited for a connect that succeeded shares its document
C29_Witness ==
    /\ \E c \in Calls :
          /\ calls[c].op = "open" /\ calls[c].pc = "rejected"
          /\ calls[c].waitOn # 0
          /\ completer[calls[c].waitOn] = "rejected"
    /\ \E c \in Calls :
          /\ calls[c].op = "open" /\ calls[c].pc = "resolved"
          /\ calls[c].waitOn # 0
          /\ calls[c].doc = calls[c].waitOn

\* an open that waited found the path closed again and sent its own connect
C29_WitnessOwnConnect ==
    \E c \in Calls :
        /\ calls[c].op = "open" /\ calls[c].pc = "awaitConnect"
        /\ calls[c].waitOn # 0
        /\ completer[calls[c].waitOn] = "resolved"
        /\ connecting[calls[c].path] = c

\* ---------------------------------------------------- reference counts
\* C30: every path present in the connected-documents registry has a
\* reference count >= 1 at every point where another open, close or sync
\* handler can run: a count of 0 or below is never observable for a
\* registered document
C30_RegisteredCountPositive ==
    \A path \in Paths : IsConnected(path) => connected[path].count >= 1

\* a document opened twice and closed once is still in the registry with
\* count 1, while a call on the same client waits at an await
C30_Witness ==
    \E path \in Paths :
        /\ IsConnected(path)
        /\ connected[path].count = 1
        /\ Cardinality(OpensOf(connected[path].ref)) = 2
        /\ \E c \in ClosesOf(connected[path].ref) : calls[c].pc = "resolved"
        /\ \E c \in Calls : calls[c].pc \in {"awaitConnect", "awaitDisconnect", "awaitPending"}

\* ------------------------------------------------------- tree invariants
\* the Element children of element n
ChildElements(heap, n) ==
    {heap[n].children[j] : j \in {j \in 1..Len(heap[n].children) :
                                     heap[heap[n].children[j]].kind = "element"}}

\* C31: after any sequence of change messages applied by receiveChanges,
\* every child Element's tagName is one of the tags allowed by its parent's
\* single ChildProperty
C31_ChildTagsAllowed ==
    \A n \in DOMAIN nodes :
        nodes[n].kind = "element"
        => \A k \in ChildElements(nodes, n) : TagAllowedUnder(nodes, n, nodes[k].tagName)

\* ------------------------------------------------------------- lookups
\* the ids a message can name
TargetIds == Ids \cup {"zz"}

\* the elements of the heap that carry the id, reachable from the root
Carrying(heap, id) ==
    LET order == Preorder(heap, RootRef)
    IN {k \in 1..Len(order) :
           heap[order[k]].kind = "element" /\ NodeId(heap, order[k]) = id}

\* the first of them in depth-first order, parent before children
FirstCarrying(heap, id) ==
    IF Carrying(heap, id) = {} THEN NullRef
    ELSE Preorder(heap, RootRef)[CHOOSE k \in Carrying(heap, id) :
                                    \A j \in Carrying(heap, id) : k <= j]

\* the last message named a target by id
TargetedById == Received /\ ~hist.msg.root /\ hist.msg.target \in TargetIds

\* the lookup finds an element exactly when one carries the id, the first
\* in depth-first order, and the message fails exactly when none does
LookupFindsFirst ==
    /\ \A id \in TargetIds : GetNodeByID(nodes, RootRef, id) = FirstCarrying(nodes, id)
    /\ TargetedById
       => /\ hist.target = FirstCarrying(hist.prev, hist.msg.target)
          /\ hist.target = NullRef <=> hist.err = "Target node not found"

\* the last message was applied and its element ops held a delete
DeleteApplied ==
    /\ Received /\ hist.err = "none"
    /\ \E j \in 1..Len(hist.msg.elements) : Has(hist.msg.elements[j].delete)

\* the ids of the elements the last message took out of the tree
RemovedIds ==
    {NodeId(hist.prev, n) :
        n \in {n \in DOMAIN hist.prev :
                  /\ hist.prev[n].kind = "element"
                  /\ "$id" \in DOMAIN hist.prev[n].attributes
                  /\ \A k \in 1..Len(Preorder(hist.raw, RootRef)) :
                        Preorder(hist.raw, RootRef)[k] # n}}

\* C32 as stated: root.getNodeByID(id) returns an element exactly when an
\* element with that $id is reachable from the root (the first one in
\* depth-first, parent-before-children order); after a delete op removes a
\* node, its id and the ids of its descendants no longer resolve, so a later
\* message targeting them raises target-not-found
C32_LookupFollowsTree ==
    /\ LookupFindsFirst
    /\ DeleteApplied => \A id \in RemovedIds : GetNodeByID(nodes, RootRef, id) = NullRef

\* C32: the same, the ids of removed nodes no longer resolving when no
\* element left in the tree carries them
C32_LookupFollowsTreeUniqueIds ==
    /\ LookupFindsFirst
    /\ DeleteApplied
       => \A id \in RemovedIds :
             Carrying(nodes, id) = {} => GetNodeByID(nodes, RootRef, id) = NullRef

\* a message named an id that no element of a non-empty tree carries, and failed
C32_WitnessNotFound ==
    /\ TargetedById
    /\ hist.err = "Target node not found"
    /\ hist.msg.target = "y"
    /\ Carrying(nodes, "x") # {}

\* a delete took out a subtree of two elements whose ids no longer resolve
C32_Witness ==
    /\ DeleteApplied
    /\ RemovedIds = {"x", "y"}
    /\ GetNodeByID(nodes, RootRef, "x") = NullRef
    /\ GetNodeByID(nodes, RootRef, "y") = NullRef

\* two elements carry the id and the lookup returns the first, which is not
\* the one inserted last
C32_WitnessFirstOfTwo ==
    /\ Cardinality(Carrying(nodes, "y")) >= 2
    /\ TargetedById /\ hist.msg.target = "y" /\ hist.err = "none"

\* ------------------------------------------------------- failed messages
\* the last message made receiveChanges raise
Raised == Received /\ hist.err # "none"

\* C33: receiveChanges is all-or-nothing: whenever it raises (target not
\* found, not a text node, unsupported or unknown node spec, format window
\* past the end of the text), every node's children, runs and attributes
\* equal their values before the call and no event or subscriber notification
\* was emitted
C33_AllOrNothing == Raised => NothingHappened

\* a call that raised called no subscriber, emitted no document event and
\* applied no attribute op
RaisedUnnotified ==
    Raised => /\ hist.notified = << >>
              /\ hist.docEvents = 0
              /\ hist.nodeEvents = 0
              /\ subscribers = hist.subscribed

\* ------------------------------------------------------- element cursor
\* the heap and the cursor after the first j element ops of the last message
AfterElementOps(j) ==
    ElementOps([heap |-> hist.prev, retain |-> 0, err |-> "none"], hist.target,
               SubSeq(hist.msg.elements, 1, j))

\* the number of children of the target after the first j element ops
ChildrenAfter(j) == Len(AfterElementOps(j).heap[hist.target].children)

\* the retain and the delete count of op j fit in the children that remain
\* at the cursor
Fits(j) ==
    LET op == hist.msg.elements[j]
        at == AfterElementOps(j - 1).retain + (IF Has(op.retain) THEN Val(op.retain) ELSE 0)
    IN /\ at <= ChildrenAfter(j - 1)
       /\ (Has(op.delete) /\ ~Has(op.insert)) => at + Val(op.delete) <= ChildrenAfter(j - 1)

\* the element ops of the last message that were carried out
ElementSteps ==
    IF Received /\ hist.target # NullRef
    THEN {j \in 1..Len(hist.msg.elements) : AfterElementOps(j).err = "none"}
    ELSE {}

CursorWithin(j) ==
    AfterElementOps(j).retain >= 0 /\ AfterElementOps(j).retain <= ChildrenAfter(j)

\* C34: while an element op-stream is processed, the cursor stays within
\* 0..length of the target's children after every op, provided every retain
\* and delete count fits in the children remaining at the cursor; in
\* particular the cursor is never negative when an insert is spliced
C34_CursorWithinChildren ==
    \A j \in ElementSteps : (\A i \in 1..j : Fits(i)) => CursorWithin(j)

\* the same for the op lists that hold no delete
CursorWithinWithoutDelete ==
    \A j \in ElementSteps :
        ((\A i \in 1..j : Fits(i)) /\ \A i \in 1..j : ~Has(hist.msg.elements[i].delete))
        => CursorWithin(j)

\* ------------------------------------------------------------ empty runs
NoEmptyRun(delta) == \A j \in 1..Len(delta) : delta[j].insert # << >>

\* C35: applying any in-range text op list (non-empty insert strings, n >= 1
\* for delete and format) to a run list with no empty runs never leaves a run
\* whose insert string is empty, including a format that starts exactly at a
\* run boundary reached by a preceding retain
C35_NoEmptyRun ==
    \A k \in TextBoundaries :
        (NoEmptyRun(hist.trace[1].delta) /\ InRangeBefore(k)) => NoEmptyRun(hist.trace[k].delta)

\* the same for the op lists that hold no format op
NoEmptyRunWithoutFormat ==
    \A k \in TextBoundaries :
        (/\ NoEmptyRun(hist.trace[1].delta)
         /\ InRangeBefore(k)
         /\ \A j \in 1..(k - 1) : ~IsFormatOp(OpAt(j)))
        => NoEmptyRun(hist.trace[k].delta)

\* ----------------------------------------------------- parent references
\* the places of node n in the children list of p
PlacesIn(heap, p, n) == {j \in 1..Len(heap[p].children) : heap[p].children[j] = n}

\* the elements whose children list contains n
Holders(heap, n) == {p \in DOMAIN heap : PlacesIn(heap, p, n) # {}}

\* C36: after any sequence of applied change messages, every node reachable
\* from the root other than the root has a parent reference to the element
\* whose children list contains it, and appears exactly once in that list
C36_ParentHoldsChildOnce ==
    \A n \in (DOMAIN nodes) \ {RootRef} :
        /\ Holders(nodes, n) = {nodes[n].parent}
        /\ nodes[nodes[n].parent].kind = "element"
        /\ Cardinality(PlacesIn(nodes, nodes[n].parent, n)) = 1

\* after a delete the tree holds an element below an element below the root
\* and a text node below a text element
C36_Witness ==
    /\ DeleteApplied
    /\ \E n \in DOMAIN nodes :
          /\ nodes[n].kind = "element"
          /\ nodes[n].parent \notin {RootRef, NullRef}
    /\ \E n \in DOMAIN nodes : nodes[n].kind = "text" /\ nodes[nodes[n].parent].tagName = "text"

\* ------------------------------------------------------------ subscribers
\* the subscribers registered before the last message and still registered
StillSubscribed == {s \in Callbacks : InArray(hist.subscribed, s) /\ InArray(subscribers, s)}

\* C37: each raw-message subscriber that was registered before a message is
\* applied and has not itself been unsubscribed is called exactly once for
\* that message, even when another subscriber calls unsubscribe() from inside
\* its callback during the same notification
C37_CalledOnceDespiteUnsubscribe ==
    (Received /\ hist.err = "none")
        => \A s \in StillSubscribed : TimesCalled(hist.notified, s) = 1

\* the same when no registered subscriber unsubscribes inside its callback
CalledOnceWithoutUnsubscribe ==
    (Received /\ hist.err = "none"
              /\ \A s \in UnsubscribingCallbacks : ~InArray(hist.subscribed, s))
        => \A s \in StillSubscribed : TimesCalled(hist.notified, s) = 1

\* ------------------------------------------------------ a failed connect
\* the room.connect request of call c fails in this step
ConnectFails(c) == calls[c].pc = "awaitConnect" /\ calls'[c].pc = "rejected"

\* the path has neither a pending marker nor a connected entry
Unconnected(path) == connecting[path] = 0 /\ ~IsConnected(path)

\* open(path) is called in this step
Opens(c, path) == calls[c].pc = "new" /\ calls'[c].op = "open" /\ calls'[c].path = path

\* the open called in this step sends a room.connect request of its own
SendsConnect(c, path) ==
    /\ calls'[c].pc = "awaitConnect"
    /\ sent'[path].connect = sent[path].connect + 1

\* the calls other than c that await the response to a room.connect for the path
OtherConnects(c, path) ==
    {d \in Calls \ {c} : calls[d].pc = "awaitConnect" /\ calls[d].path = path}

\* C38: if the room.connect request of an open(path) fails, that open rejects
\* and afterwards the path has neither a pending marker nor a connected
\* entry, so a later open(path) sends a new room.connect request
C38_FailedConnectLeavesPathUnconnected ==
    [][/\ \A c \in Calls : ConnectFails(c) => Unconnected(calls[c].path)'
       /\ \A c \in Calls, path \in Paths :
             (Unconnected(path) /\ Opens(c, path)) => SendsConnect(c, path)]_vars

\* the same for a connect that fails while no other call has a connect in
\* flight for the path
FailedOnlyConnectLeavesPathUnconnected ==
    [][/\ \A c \in Calls : (ConnectFails(c) /\ OtherConnects(c, calls[c].path) = {}
                                            /\ ~IsConnected(calls[c].path))
                              => Unconnected(calls[c].path)'
       /\ \A c \in Calls, path \in Paths :
             (Unconnected(path) /\ Opens(c, path)) => SendsConnect(c, path)]_vars

\* a failed connect always rejects its open and removes the path's marker
FailedConnectRemovesMarker ==
    [][\A c \in Calls : ConnectFails(c) => connecting'[calls[c].path] = 0]_vars

\* ------------------------------------------------- opens always settle
\* the response to the room.connect request of call c, success or failure
ConnectResponse(c) == (OpenConnected(c) \/ OpenConnectFailed(c)) /\ UNCHANGED <<received, schema, changesToSync>>

\* the continuation of call c after `await pending`, which the runtime
\* schedules once the awaited promise has settled
PendingSettled(c) == OpenResume(c) /\ UNCHANGED <<received, schema, changesToSync>>

\* every room.connect request receives a response, and every continuation
\* whose promise has settled is run
SpecSyncLive ==
    /\ SpecSync
    /\ \A c \in Calls : WF_vars(ConnectResponse(c)) /\ WF_vars(PendingSettled(c))

OpenInFlight(c) == calls[c].op = "open" /\ calls[c].pc \in {"awaitPending", "awaitConnect"}

Settled(c) == calls[c].pc \in {"resolved", "rejected"}

\* C39: every open(path) call eventually resolves or rejects provided every
\* room.connect request eventually receives a response: no call remains
\* forever waiting on a pending marker
C39_OpenEventuallySettles ==
    \A c \in Calls : OpenInFlight(c) ~> Settled(c)

\* every call is an open of one path, one of them waited for a connect that
\* failed, another for a connect that succeeded, and all have settled
C39_Witness ==
    /\ \A c \in Calls : calls[c].op = "open" /\ calls[c].path = "doc/a" /\ Settled(c)
    /\ \E c \in Calls : calls[c].waitOn # 0 /\ calls[c].pc = "rejected"
    /\ \E c \in Calls : calls[c].waitOn # 0 /\ calls[c].pc = "resolved"

\* ------------------------------------------- changes sent to the backend
\* A loop step runs from one await to the next. pc of the loop of start():
\* "notStarted", "awaitNext" (for await, awaiting the promise of next()),
\* "awaitResponse" (awaiting sendRequest), "done" (the stream ended),
\* "failed" (sendRequest threw out of the loop).
QueuedSync(path, base64) == [path |-> path, base64 |-> base64]

IteratorResult(done, value) == [done |-> done, value |-> value]

DoneResult == IteratorResult(TRUE, << >>)

\* the stream's next(): a queued value, the end of a closed stream, or a
\* promise that add or close will resolve
StreamNext(s) ==
    IF Len(s.queue) > 0
    THEN [s EXCEPT !.result = IteratorResult(FALSE, <<Head(s.queue)>>), !.queue = Tail(@),
                   !.pc = "awaitNext"]
    ELSE IF s.closed
    THEN [s EXCEPT !.result = DoneResult, !.pc = "awaitNext"]
    ELSE [s EXCEPT !.waiters = @ + 1, !.result = NoResult, !.pc = "awaitNext"]

\* StreamController.add
StreamAdd(s, value) ==
    IF s.closed THEN s
    ELSE IF s.waiters > 0
    THEN [s EXCEPT !.waiters = @ - 1, !.result = IteratorResult(FALSE, <<value>>)]
    ELSE [s EXCEPT !.queue = Append(@, value)]

\* StreamController.close
StreamClose(s) ==
    IF s.waiters > 0
    THEN [s EXCEPT !.closed = TRUE, !.waiters = 0, !.result = DoneResult]
    ELSE [s EXCEPT !.closed = TRUE]

nonQueueVars ==
    <<nodes, hist, subscribers, calls, started, connecting, completer, connected, registered,
      sent, received, schema>>

\* SyncClient.start: the loop begins and calls next()
Start ==
    /\ changesToSync.pc = "notStarted"
    /\ changesToSync' = StreamNext(changesToSync)
    /\ UNCHANGED nonQueueVars

\* a document of path hands a change to sendChangesToBackend; the change is
\* named by the number of the call
SendChangesToBackend ==
    /\ changesToSync.added < MaxChanges
    /\ \E path \in Paths :
          changesToSync' =
              [StreamAdd(changesToSync, QueuedSync(path, changesToSync.added + 1))
                  EXCEPT !.added = @ + 1]
    /\ UNCHANGED nonQueueVars

\* SyncClient.dispose
Dispose ==
    /\ ~changesToSync.closed
    /\ changesToSync' = StreamClose(changesToSync)
    /\ UNCHANGED nonQueueVars

\* the promise of next() has settled: the loop ends, or sends the change as
\* a room.sync request and awaits the response
Iterate ==
    /\ changesToSync.pc = "awaitNext"
    /\ changesToSync.result # NoResult
    /\ changesToSync' =
          IF changesToSync.result.done
          THEN [changesToSync EXCEPT !.pc = "done", !.result = NoResult]
          ELSE [changesToSync EXCEPT !.pc = "awaitResponse", !.result = NoResult,
                                     !.requests = Append(@, changesToSync.result.value[1]),
                                     !.outstanding = @ + 1]
    /\ UNCHANGED nonQueueVars

\* the response to the room.sync request arrives: the loop calls next() again
SyncResponded ==
    /\ changesToSync.pc = "awaitResponse"
    /\ changesToSync' = StreamNext([changesToSync EXCEPT !.outstanding = @ - 1])
    /\ UNCHANGED nonQueueVars

\* the room.sync request is answered by an error: sendRequest rejects, the
\* await throws and the async function of the loop ends
SyncFailed ==
    /\ changesToSync.pc = "awaitResponse"
    /\ changesToSync' = [changesToSync EXCEPT !.outstanding = @ - 1, !.pc = "failed"]
    /\ UNCHANGED nonQueueVars

SyncQueueNext ==
    \/ Start
    \/ SendChangesToBackend
    \/ Dispose
    \/ Iterate
    \/ SyncResponded
    \/ SyncFailed

SpecSyncQueue == DocInit /\ [][SyncQueueNext]_vars

\* start() is called, the continuation of a settled promise is run, and
\* every room.sync request receives a response, success or error
SpecSyncQueueLive ==
    /\ SpecSyncQueue
    /\ WF_vars(Start)
    /\ WF_vars(Iterate)
    /\ WF_vars(SyncResponded \/ SyncFailed)

\* the changes the queue took, in the order they were queued: add drops a
\* change handed over after dispose
Changes == 1..MaxChanges

Requested(k) == \E j \in DOMAIN changesToSync.requests : changesToSync.requests[j].base64 = k

InQueue(k) == \E j \in DOMAIN changesToSync.queue : changesToSync.queue[j].base64 = k

Handed(k) ==
    /\ changesToSync.result # NoResult
    /\ ~changesToSync.result.done
    /\ changesToSync.result.value[1].base64 = k

Queued(k) == InQueue(k) \/ Handed(k)

\* the requests were sent in the order of the changes
SentInOrder ==
    \A i, j \in DOMAIN changesToSync.requests :
        i < j => changesToSync.requests[i].base64 < changesToSync.requests[j].base64

OneOutstanding == changesToSync.outstanding <= 1

\* C40: changes queued for the backend are sent as room.sync requests in the
\* order they were queued, with at most one room.sync request outstanding at
\* a time, and every change queued before dispose is eventually sent provided
\* each request receives a response (success or error)
C40_QueuedChangesSentInOrder ==
    /\ [](SentInOrder /\ OneOutstanding)
    /\ \A k \in Changes : Queued(k) ~> Requested(k)

\* the order of the requests and the single outstanding request
SentInOrderOneAtATime == SentInOrder /\ OneOutstanding

\* every queued change is sent unless a request was answered by an error
QueuedSentUnlessFailed ==
    \A k \in Changes : Queued(k) ~> (Requested(k) \/ changesToSync.pc = "failed")

====
